---- MODULE Spec2Model ----
(***************************************************************************)
(* Model of the calculation and recommendation engine of dca-analyzer:     *)
(*   calculatePositionStats   (src/lib/calculations.ts)                    *)
(*   analyzeStrategyAdvice    (src/lib/advice.ts)                          *)
(*   generatePresetWeights    (src/lib/strategies.ts)                      *)
(*   useSimulator             (src/hooks/use-simulator.ts)                 *)
(*                                                                         *)
(* Numbers.  Prices, sizes and sweep parameters are integers.  A weight is *)
(* an integer number of weight units (a common denominator of the          *)
(* fractional weights): every profit comparison of the code is invariant   *)
(* under that scaling.  Sums, products and differences of integers are     *)
(* exact, so they stay integers.  A value produced by a JavaScript         *)
(* division is a Num: an exact rational in lowest terms, or one of the     *)
(* IEEE specials NaN, +Infinity, -Infinity.  The sign of zero is not       *)
(* modelled.  The two engine functions are modelled without the rounding   *)
(* error of binary floating point; the weight generators and the custom    *)
(* weights of the hook are computed in double precision, bit for bit (see  *)
(* the section on double precision).                                       *)
(***************************************************************************)
EXTENDS Integers, Sequences, FiniteSets, TLC

(***************************************************************************)
(* Bounds of the model.                                                    *)
(***************************************************************************)
MaxPrice == 3
MaxWeight == 1
MaxLevels == 3
MaxAllocs == 3
MaxSize == 1
MaxStep == 2
LadderLen == 4
LowTarget == 2
HighTarget == 5

(***************************************************************************)
(* JavaScript numbers that come out of a division.                         *)
(***************************************************************************)
Abs(x) == IF x < 0 THEN -x ELSE x

Sign(x) == IF x < 0 THEN -1 ELSE IF x > 0 THEN 1 ELSE 0

RECURSIVE Gcd(_, _)
Gcd(a, b) == IF b = 0 THEN a ELSE Gcd(b, a % b)

NaN == [kind |-> "nan", n |-> 0, d |-> 1]

Inf(s) == [kind |-> "inf", n |-> s, d |-> 1]

\* The rational n/d, d # 0, in lowest terms with a positive denominator.
Fin(n, d) ==
    LET g == Gcd(Abs(n), Abs(d))
        s == IF d < 0 THEN -1 ELSE 1
    IN  [kind |-> "fin", n |-> (s * n) \div g, d |-> Abs(d) \div g]

Int2Num(i) == [kind |-> "fin", n |-> i, d |-> 1]

\* a / b
NumDiv(a, b) ==
    CASE a.kind = "nan" \/ b.kind = "nan" -> NaN
      [] a.kind = "inf" /\ b.kind = "inf" -> NaN
      [] a.kind = "inf" /\ b.kind = "fin" ->
            Inf(IF b.n < 0 THEN -a.n ELSE a.n)
      [] a.kind = "fin" /\ b.kind = "inf" -> Int2Num(0)
      [] OTHER ->
            IF b.n = 0
            THEN IF a.n = 0 THEN NaN ELSE Inf(Sign(a.n))
            ELSE Fin(a.n * b.d, a.d * b.n)

\* a + b
NumAdd(a, b) ==
    CASE a.kind = "nan" \/ b.kind = "nan" -> NaN
      [] a.kind = "inf" /\ b.kind = "inf" -> IF a.n = b.n THEN a ELSE NaN
      [] a.kind = "inf" -> a
      [] b.kind = "inf" -> b
      [] OTHER -> Fin(a.n * b.d + b.n * a.d, a.d * b.d)

\* a * b
NumMul(a, b) ==
    CASE a.kind = "nan" \/ b.kind = "nan" -> NaN
      [] a.kind = "inf" \/ b.kind = "inf" ->
            IF Sign(a.n) * Sign(b.n) = 0 THEN NaN
            ELSE Inf(Sign(a.n) * Sign(b.n))
      [] OTHER -> Fin(a.n * b.n, a.d * b.d)

\* a < b (false when either is NaN)
NumLt(a, b) ==
    CASE a.kind = "nan" \/ b.kind = "nan" -> FALSE
      [] a.kind = "inf" /\ b.kind = "inf" -> a.n < b.n
      [] a.kind = "inf" -> a.n < 0
      [] b.kind = "inf" -> b.n > 0
      [] OTHER -> a.n * b.d < b.n * a.d

\* Math.max(a, b)
NumMax(a, b) ==
    IF a.kind = "nan" \/ b.kind = "nan" THEN NaN
    ELSE IF NumLt(a, b) THEN b ELSE a

\* Math.round(a): the nearest integer, a tie going up.
NumRound(a) ==
    IF a.kind # "fin" THEN a
    ELSE Int2Num((2 * a.n + a.d) \div (2 * a.d))

(***************************************************************************)
(* Double precision.  The weight generators divide and add fractions, and  *)
(* what they promise (a sum of 1) is a matter of rounding, so there a      *)
(* JavaScript number is modelled bit for bit: an IEEE 754 binary64 value   *)
(* >= 0 is a Double [m, e] standing for m * 2^e, m a natural number of     *)
(* exactly MantissaBits bits (or 0), every operation rounding its exact    *)
(* result to the nearest such value, a tie going to the even one.  The     *)
(* values met are far from overflow and from the subnormal range.          *)
(* A natural number of any size is a sequence of bits, the lowest first,   *)
(* without a leading (last) zero.                                          *)
(***************************************************************************)
MantissaBits == 53

\* 2^k
RECURSIVE Pow2(_)
Pow2(k) == IF k = 0 THEN 1 ELSE 2 * Pow2(k - 1)

\* Long numbers are added, subtracted and compared ChunkBits bits at a time.
ChunkBits == 15

ChunkBase == Pow2(ChunkBits)

Pow2Table == [k \in 0..ChunkBits |-> Pow2(k)]

\* Bit j of a, 0 beyond its length.
Bit(a, j) == IF j <= Len(a) THEN a[j] ELSE 0

\* The number made of the n bits of a from position lo on.
RECURSIVE BitsVal(_, _, _)
BitsVal(a, lo, n) ==
    IF n = 0 \/ lo > Len(a) THEN 0 ELSE a[lo] + 2 * BitsVal(a, lo + 1, n - 1)

\* Chunk c of a, counted from 1 at the low end.
Chunk(a, c) == BitsVal(a, ChunkBits * (c - 1) + 1, ChunkBits)

\* The number of chunks of a.
Chunks(a) == (Len(a) + ChunkBits - 1) \div ChunkBits

\* The n low bits of the number v, the lowest first.
BitsOf(v, n) == [j \in 1..n |-> (v \div Pow2Table[j - 1]) % 2]

\* The position of the highest bit that is 1 among the first n; 0 when
\* there is none.
RECURSIVE HighBitBelow(_, _)
HighBitBelow(a, n) ==
    IF n = 0 THEN 0
    ELSE IF n % ChunkBits = 0 /\ Chunk(a, n \div ChunkBits) = 0
    THEN HighBitBelow(a, n - ChunkBits)
    ELSE IF a[n] = 1 THEN n
    ELSE HighBitBelow(a, n - 1)

BNorm(a) == SubSeq(a, 1, HighBitBelow(a, Len(a)))

RECURSIVE BFromInt(_)
BFromInt(i) == IF i = 0 THEN <<>> ELSE <<i % 2>> \o BFromInt(i \div 2)

\* The bits of a + b from chunk c up to chunk last, carry coming in.
RECURSIVE AddFrom(_, _, _, _, _)
AddFrom(a, b, c, carry, last) ==
    IF c > last THEN <<carry>>
    ELSE LET t == Chunk(a, c) + Chunk(b, c) + carry
         IN  BitsOf(t % ChunkBase, ChunkBits)
                \o AddFrom(a, b, c + 1, t \div ChunkBase, last)

\* a + b
BAdd(a, b) ==
    BNorm(AddFrom(a, b, 1, 0,
                  IF Chunks(a) > Chunks(b) THEN Chunks(a) ELSE Chunks(b)))

\* The bits of a - b from chunk c up to chunk last, borrow going out below.
RECURSIVE SubFrom(_, _, _, _, _)
SubFrom(a, b, c, borrow, last) ==
    IF c > last THEN <<>>
    ELSE LET t == Chunk(a, c) - Chunk(b, c) - borrow
         IN  BitsOf(IF t < 0 THEN t + ChunkBase ELSE t, ChunkBits)
                \o SubFrom(a, b, c + 1, IF t < 0 THEN 1 ELSE 0, last)

\* a - b for a >= b
BSub(a, b) == BNorm(SubFrom(a, b, 1, 0, Chunks(a)))

\* a < b on the chunks from c down
RECURSIVE LessFrom(_, _, _)
LessFrom(a, b, c) ==
    IF c = 0 THEN FALSE
    ELSE IF Chunk(a, c) # Chunk(b, c) THEN Chunk(a, c) < Chunk(b, c)
    ELSE LessFrom(a, b, c - 1)

\* a < b
BLess(a, b) ==
    IF Len(a) # Len(b) THEN Len(a) < Len(b) ELSE LessFrom(a, b, Chunks(a))

\* a * 2^k
BShl(a, k) == IF a = <<>> THEN <<>> ELSE [j \in 1..k |-> 0] \o a

\* a * k for an integer k >= 0
RECURSIVE BMulInt(_, _)
BMulInt(a, k) ==
    IF k = 0 THEN <<>>
    ELSE BAdd(IF k % 2 = 1 THEN a ELSE <<>>, BShl(BMulInt(a, k \div 2), 1))

DZero == [m |-> <<>>, e |-> 0]

\* The Double nearest to m * 2^e, a tie going to the even mantissa.
RoundToDouble(m, e) ==
    IF m = <<>> THEN DZero
    ELSE IF Len(m) <= MantissaBits
    THEN [m |-> BShl(m, MantissaBits - Len(m)), e |-> e - (MantissaBits - Len(m))]
    ELSE LET r == Len(m) - MantissaBits
             kept == SubSeq(m, r + 1, Len(m))
             guard == m[r]
             sticky == \E j \in 1..(r - 1) : m[j] = 1
             up == guard = 1 /\ (sticky \/ kept[1] = 1)
             rounded == IF up THEN BAdd(kept, <<1>>) ELSE kept
         IN  IF Len(rounded) > MantissaBits
             THEN [m |-> Tail(rounded), e |-> e + r + 1]
             ELSE [m |-> rounded, e |-> e + r]

\* A whole number as a Double.
DFromInt(i) == RoundToDouble(BFromInt(i), 0)

DOne == DFromInt(1)

\* x + y
DAdd(x, y) ==
    IF x = DZero THEN y
    ELSE IF y = DZero THEN x
    ELSE LET emin == IF x.e < y.e THEN x.e ELSE y.e
         IN  RoundToDouble(BAdd(BShl(x.m, x.e - emin), BShl(y.m, y.e - emin)), emin)

\* x < y
DLess(x, y) ==
    IF y = DZero THEN FALSE
    ELSE IF x = DZero THEN TRUE
    ELSE IF x.e # y.e THEN x.e < y.e
    ELSE BLess(x.m, y.m)

\* x - y for x >= y
DSub(x, y) ==
    IF y = DZero THEN x
    ELSE LET emin == IF x.e < y.e THEN x.e ELSE y.e
         IN  RoundToDouble(BSub(BShl(x.m, x.e - emin), BShl(y.m, y.e - emin)), emin)

\* x * k for a whole number k >= 0 (a whole number is held exactly, so the
\* product of the two doubles is the rounded x * k)
DMulInt(x, k) == IF x = DZero THEN DZero ELSE RoundToDouble(BMulInt(x.m, k), x.e)

\* Bits of a quotient worked out at a time, and the number of such groups
\* worked out below the binary point before rounding.
GroupBits == 8

QuotientGroups == 10

\* The first count groups of bits of the fraction r / b, r < b, the lowest
\* bit first.
RECURSIVE FracBits(_, _, _)
FracBits(r, b, count) ==
    IF count = 0 THEN <<>>
    ELSE FracBits((r * Pow2Table[GroupBits]) % b, b, count - 1)
            \o BitsOf((r * Pow2Table[GroupBits]) \div b, GroupBits)

\* The remainder left after count groups of bits of the fraction r / b.
RECURSIVE FracRest(_, _, _)
FracRest(r, b, count) ==
    IF count = 0 THEN r ELSE FracRest((r * Pow2Table[GroupBits]) % b, b, count - 1)

\* a / b for whole numbers a >= 0, b > 0: the exact quotient, cut after
\* QuotientGroups groups of bits with one more bit telling whether anything
\* was cut off, then rounded.
DDivInt(a, b) ==
    LET sticky == IF FracRest(a % b, b, QuotientGroups) # 0 THEN 1 ELSE 0
        bits == <<sticky>> \o FracBits(a % b, b, QuotientGroups) \o BFromInt(a \div b)
    IN  RoundToDouble(BNorm(bits), 0 - (QuotientGroups * GroupBits + 1))

\* The bits of a * k from chunk c of a up to chunk last, for k below
\* ChunkBase, carry coming in.
RECURSIVE MulChunkFrom(_, _, _, _, _)
MulChunkFrom(a, k, c, carry, last) ==
    IF c > last THEN BitsOf(carry, ChunkBits)
    ELSE LET t == Chunk(a, c) * k + carry
         IN  BitsOf(t % ChunkBase, ChunkBits)
                \o MulChunkFrom(a, k, c + 1, t \div ChunkBase, last)

\* a * k for 0 <= k < ChunkBase
BMulChunk(a, k) == BNorm(MulChunkFrom(a, k, 1, 0, Chunks(a)))

\* a * (the chunks of b from chunk c up), the higher chunks first.
RECURSIVE MulFrom(_, _, _)
MulFrom(a, b, c) ==
    IF c > Chunks(b) THEN <<>>
    ELSE LET high == MulFrom(a, b, c + 1)
         IN  IF high = <<>> THEN BMulChunk(a, Chunk(b, c))
             ELSE BAdd(BShl(high, ChunkBits), BMulChunk(a, Chunk(b, c)))

\* a * b
BMul(a, b) == MulFrom(a, b, 1)

\* x * y
DMul(x, y) ==
    IF x = DZero \/ y = DZero THEN DZero
    ELSE RoundToDouble(BMul(x.m, y.m), x.e + y.e)

\* The next count bits of the quotient r / b below the binary point, r < b,
\* the highest bit first, and the remainder left after them.
RECURSIVE DivBits(_, _, _)
DivBits(r, b, count) ==
    IF count = 0 THEN [bits |-> <<>>, rest |-> r]
    ELSE LET doubled == BShl(r, 1)
         IN  IF BLess(doubled, b)
             THEN LET g == DivBits(doubled, b, count - 1)
                  IN  [bits |-> <<0>> \o g.bits, rest |-> g.rest]
             ELSE LET g == DivBits(BSub(doubled, b), b, count - 1)
                  IN  [bits |-> <<1>> \o g.bits, rest |-> g.rest]

\* The same for count groups of GroupBits bits, one group after the other.
RECURSIVE DivGroups(_, _, _)
DivGroups(r, b, count) ==
    IF count = 0 THEN [bits |-> <<>>, rest |-> r]
    ELSE LET g == DivBits(r, b, GroupBits)
             t == DivGroups(g.rest, b, count - 1)
         IN  [bits |-> g.bits \o t.bits, rest |-> t.rest]

\* The groups of bits of a quotient of two doubles worked out below the
\* binary point before rounding.
DivideGroups == 7

\* x / y for y > 0: the two mantissas have the same length, so the quotient
\* of the mantissas is below 2; its bit before the binary point, then
\* DivideGroups groups of bits after it and one more bit telling whether
\* anything was cut off, rounded.
DDiv(x, y) ==
    IF x = DZero THEN DZero
    ELSE LET whole == IF BLess(x.m, y.m) THEN 0 ELSE 1
             q == DivGroups(IF whole = 1 THEN BSub(x.m, y.m) ELSE x.m, y.m,
                            DivideGroups)
             sticky == IF q.rest # <<>> THEN 1 ELSE 0
             n == Len(q.bits)
             low == [j \in 1..n |-> q.bits[n + 1 - j]]
         IN  RoundToDouble(BNorm(<<sticky>> \o low \o <<whole>>),
                           x.e - y.e - (n + 1))

(***************************************************************************)
(* calculatePositionStats                                                  *)
(***************************************************************************)
\* allocations.reduce((sum, l) => sum + f(l), 0)
RECURSIVE SumWeight(_)
SumWeight(ls) ==
    IF ls = <<>> THEN 0 ELSE SumWeight(SubSeq(ls, 1, Len(ls) - 1)) + ls[Len(ls)].weight

RECURSIVE SumCost(_)
SumCost(ls) ==
    IF ls = <<>> THEN 0
    ELSE SumCost(SubSeq(ls, 1, Len(ls) - 1)) + ls[Len(ls)].weight * ls[Len(ls)].price

\* Variant: a price equal to the threshold does not count as filled.
IsFilledStrict(l, reboundPrice) == l.price > reboundPrice

\* allocations.filter((l) => l.price >= reboundPrice)
IsFilled(l, reboundPrice) == l.price >= reboundPrice

ZeroMetrics ==
    [filledPosition |-> 0, totalCost |-> 0, avgCost |-> Int2Num(0),
     valueAtTarget |-> 0, profit |-> 0, roi |-> Int2Num(0)]

\* Variant: the empty fill is not singled out; the metrics are computed from
\* the empty sums.
CalculatePositionStatsUnguarded(allocs, reboundPrice, target, size) ==
    LET filledLevels == SelectSeq(allocs, LAMBDA l : IsFilled(l, reboundPrice))
        filledPosition == SumWeight(filledLevels) * size
        totalCost == SumCost(filledLevels) * size
        profit == filledPosition * target - totalCost
    IN  [filledPosition |-> filledPosition, totalCost |-> totalCost,
         avgCost |-> NumDiv(Int2Num(totalCost), Int2Num(filledPosition)),
         valueAtTarget |-> filledPosition * target, profit |-> profit,
         roi |-> NumMul(NumDiv(Int2Num(profit), Int2Num(totalCost)), Int2Num(100))]

CalculatePositionStats(allocs, reboundPrice, target, size) ==
    LET filledLevels == SelectSeq(allocs, LAMBDA l : IsFilled(l, reboundPrice))
        filledPosition == SumWeight(filledLevels) * size
        totalCost == SumCost(filledLevels) * size
        avgCost == NumDiv(Int2Num(totalCost), Int2Num(filledPosition))
        valueAtTarget == filledPosition * target
        profit == valueAtTarget - totalCost
        roi == NumMul(NumDiv(Int2Num(profit), Int2Num(totalCost)), Int2Num(100))
    IN  IF Len(filledLevels) = 0 THEN ZeroMetrics
        ELSE [filledPosition |-> filledPosition, totalCost |-> totalCost,
              avgCost |-> avgCost, valueAtTarget |-> valueAtTarget,
              profit |-> profit, roi |-> roi]

(***************************************************************************)
(* analyzeStrategyAdvice                                                   *)
(***************************************************************************)
\* [...priceLevels.filter((p) => p > 0)].sort((a, b) => b - a)
InsertDesc(s, x) ==
    LET k == Cardinality({j \in 1..Len(s) : s[j] >= x})
    IN  SubSeq(s, 1, k) \o <<x>> \o SubSeq(s, k + 1, Len(s))

RECURSIVE SortDesc(_)
SortDesc(s) ==
    IF s = <<>> THEN <<>>
    ELSE InsertDesc(SortDesc(SubSeq(s, 1, Len(s) - 1)), s[Len(s)])

\* Variant: a slot holding 0 counts as an active level.
ActiveLevelsKeepZero(levels) == SortDesc(SelectSeq(levels, LAMBDA p : p >= 0))

ActiveLevels(levels) == SortDesc(SelectSeq(levels, LAMBDA p : p > 0))

\* activeLevels.indexOf(x): the first position of x, counted from 1; 0 if absent.
IndexOf(s, x) ==
    IF \E j \in 1..Len(s) : s[j] = x
    THEN CHOOSE j \in 1..Len(s) : s[j] = x /\ \A h \in 1..(j - 1) : s[h] # x
    ELSE 0

\* strategies.map((s) => ({ name, profit: calculatePositionStats(...).profit }))
Profits(strats, testPrice, target, size) ==
    [k \in 1..Len(strats) |->
        [name |-> strats[k].name,
         profit |-> CalculatePositionStats(strats[k].allocations, testPrice,
                                           target, size).profit]]

\* Variant: the smallest profit is taken for the best one.
RECURSIVE MinProfit(_)
MinProfit(profits) ==
    IF Len(profits) = 1 THEN profits[1].profit
    ELSE LET m == MinProfit(SubSeq(profits, 1, Len(profits) - 1))
             x == profits[Len(profits)].profit
         IN  IF x < m THEN x ELSE m

\* Math.max(...profits.map((p) => p.profit)), for a non-empty list
RECURSIVE MaxProfit(_)
MaxProfit(profits) ==
    IF Len(profits) = 1 THEN profits[1].profit
    ELSE LET m == MaxProfit(SubSeq(profits, 1, Len(profits) - 1))
             x == profits[Len(profits)].profit
         IN  IF x > m THEN x ELSE m

\* Variant: the first tied strategy wins, custom or not.
PickFirstWinner(profits) ==
    LET maxProfit == MaxProfit(profits)
        winners == SelectSeq(profits, LAMBDA p : p.profit = maxProfit)
    IN  winners[1]

\* winners.find((w) => w.name === "custom") ?? winners[0]
PickWinner(profits) ==
    LET maxProfit == MaxProfit(profits)
        winners == SelectSeq(profits, LAMBDA p : p.profit = maxProfit)
        custom == SelectSeq(winners, LAMBDA w : w.name = "custom")
    IN  IF custom # <<>> THEN custom[1] ELSE winners[1]

\* Variant: a level whose best profit is exactly 0 is recorded.
IsSkippedNegativeOnly(maxProfit) == maxProfit < 0

\* if (maxProfit <= 0) continue
IsSkipped(maxProfit) == maxProfit <= 0

\* Variant: a further win of a name does not raise its count.
WinCountsAddOnce(wc, name) ==
    IF \E j \in 1..Len(wc) : wc[j].name = name
    THEN wc
    ELSE Append(wc, [name |-> name, count |-> 1])

\* winCounts.set(name, (winCounts.get(name) || 0) + 1); a Map keeps its keys
\* in the order of their first insertion.
WinCountsAdd(wc, name) ==
    IF \E j \in 1..Len(wc) : wc[j].name = name
    THEN [j \in 1..Len(wc) |->
            IF wc[j].name = name
            THEN [name |-> name, count |-> wc[j].count + 1]
            ELSE wc[j]]
    ELSE Append(wc, [name |-> name, count |-> 1])

\* The loop over activeLevels from index i on; acc = [winCounts, levelResults].
RECURSIVE LevelLoop(_, _, _, _, _, _)
LevelLoop(i, acc, strats, active, target, size) ==
    IF i > Len(active) THEN acc
    ELSE LET testPrice == active[i]
             profits == Profits(strats, testPrice, target, size)
             winner == PickWinner(profits)
         IN  IF IsSkipped(MaxProfit(profits))
             THEN LevelLoop(i + 1, acc, strats, active, target, size)
             ELSE LevelLoop(i + 1,
                    [winCounts |-> WinCountsAdd(acc.winCounts, winner.name),
                     levelResults |-> Append(acc.levelResults,
                                        [price |-> testPrice, winner |-> winner.name])],
                    strats, active, target, size)

\* Variant: a merged level does not move the low end of the segment.
MergeStepKeepLow(merged, lr) ==
    IF merged # <<>> /\ merged[Len(merged)].winner = lr.winner
    THEN merged
    ELSE Append(merged, [highPrice |-> lr.price, lowPrice |-> lr.price,
                         winner |-> lr.winner])

\* One iteration of the merge loop.
MergeStep(merged, lr) ==
    IF merged # <<>> /\ merged[Len(merged)].winner = lr.winner
    THEN [merged EXCEPT ![Len(merged)].lowPrice = lr.price]
    ELSE Append(merged, [highPrice |-> lr.price, lowPrice |-> lr.price,
                         winner |-> lr.winner])

RECURSIVE MergeSegments(_)
MergeSegments(lrs) ==
    IF lrs = <<>> THEN <<>>
    ELSE MergeStep(MergeSegments(SubSeq(lrs, 1, Len(lrs) - 1)), lrs[Len(lrs)])

\* let bestStrategy = { name: "", count: 0 }
NoStrategy == [name |-> "", count |-> 0]

\* Variant: an equal count replaces the best so far (the last tied name wins).
BestStepLastTied(best, entry) == IF entry.count >= best.count THEN entry ELSE best

\* One callback of winCounts.forEach.
BestStep(best, entry) == IF entry.count > best.count THEN entry ELSE best

RECURSIVE FindBest(_)
FindBest(wc) ==
    IF wc = <<>> THEN NoStrategy
    ELSE BestStep(FindBest(SubSeq(wc, 1, Len(wc) - 1)), wc[Len(wc)])

Min(a, b) == IF a < b THEN a ELSE b

Max(a, b) == IF a > b THEN a ELSE b

\* Variant: a segment outside the sweep range adds a negative amount.
SegmentCoverageNoFloor(seg, active, bMin, bMax, bStep) ==
    LET lowIdx == IndexOf(active, seg.lowPrice)
        isLastLevel == lowIdx = Len(active)
        lowerBound == IF isLastLevel THEN bMin ELSE active[lowIdx + 1] + bStep
        clampedHigh == Min(seg.highPrice, bMax)
        clampedLow == Max(lowerBound, bMin)
    IN  NumAdd(NumDiv(Int2Num(clampedHigh - clampedLow), Int2Num(bStep)),
               Int2Num(1))

\* Variant: the step count of a segment leaves out its first step.
SegmentCoverageNoPlusOne(seg, active, bMin, bMax, bStep) ==
    LET lowIdx == IndexOf(active, seg.lowPrice)
        isLastLevel == lowIdx = Len(active)
        lowerBound == IF isLastLevel THEN bMin ELSE active[lowIdx + 1] + bStep
        clampedHigh == Min(seg.highPrice, bMax)
        clampedLow == Max(lowerBound, bMin)
    IN  NumMax(Int2Num(0),
               NumDiv(Int2Num(clampedHigh - clampedLow), Int2Num(bStep)))

\* What one segment of the best strategy adds to bestCoverage.
SegmentCoverage(seg, active, bMin, bMax, bStep) ==
    LET lowIdx == IndexOf(active, seg.lowPrice)
        isLastLevel == lowIdx = Len(active)
        lowerBound == IF isLastLevel THEN bMin ELSE active[lowIdx + 1] + bStep
        clampedHigh == Min(seg.highPrice, bMax)
        clampedLow == Max(lowerBound, bMin)
    IN  NumMax(Int2Num(0),
               NumAdd(NumDiv(Int2Num(clampedHigh - clampedLow), Int2Num(bStep)),
                      Int2Num(1)))

RECURSIVE BestCoverage(_, _, _, _, _, _)
BestCoverage(segs, bestName, active, bMin, bMax, bStep) ==
    IF segs = <<>> THEN Int2Num(0)
    ELSE LET rest == BestCoverage(SubSeq(segs, 1, Len(segs) - 1), bestName,
                                  active, bMin, bMax, bStep)
             seg == segs[Len(segs)]
         IN  IF seg.winner # bestName THEN rest
             ELSE NumAdd(rest, SegmentCoverage(seg, active, bMin, bMax, bStep))

\* Variant: the number of sweep steps leaves out the first one.
TotalStepsNoPlusOne(bMin, bMax, bStep) ==
    NumDiv(Int2Num(bMax - bMin), Int2Num(bStep))

\* const totalSteps = (bottomMax - bottomMin) / bottomStep + 1
TotalSteps(bMin, bMax, bStep) ==
    NumAdd(NumDiv(Int2Num(bMax - bMin), Int2Num(bStep)), Int2Num(1))

\* Variant: the percentage is computed also when no strategy won a level.
CoveragePctUnguarded(segs, best, active, bMin, bMax, bStep) ==
    NumRound(NumMul(NumDiv(BestCoverage(segs, best.name, active, bMin, bMax, bStep),
                           TotalSteps(bMin, bMax, bStep)),
                    Int2Num(100)))

\* let coveragePct = 0; if (bestStrategy.name) { ... }
CoveragePct(segs, best, active, bMin, bMax, bStep) ==
    IF best.name = "" THEN Int2Num(0)
    ELSE NumRound(NumMul(NumDiv(BestCoverage(segs, best.name, active, bMin, bMax, bStep),
                                TotalSteps(bMin, bMax, bStep)),
                         Int2Num(100)))

\* Variant: the first segment is the one marked isLast.
ResultSegmentsFirstMarked(merged) ==
    [j \in 1..Len(merged) |->
        [rangeHigh |-> merged[j].highPrice, rangeLow |-> merged[j].lowPrice,
         isLast |-> (j = 1), winner |-> merged[j].winner]]

\* The segments of the returned object.
ResultSegments(merged) ==
    [j \in 1..Len(merged) |->
        [rangeHigh |-> merged[j].highPrice, rangeLow |-> merged[j].lowPrice,
         isLast |-> (j = Len(merged)), winner |-> merged[j].winner]]

\* The value returned for null, and the shape of every result: isNull tells
\* the two apart; bestStrategy = NoStrategy stands for bestStrategy: null.
NullAdvice ==
    [isNull |-> TRUE, zeroZonePrice |-> 0, segments |-> <<>>,
     bestStrategy |-> NoStrategy, coveragePct |-> Int2Num(0),
     levelResults |-> <<>>, winCounts |-> <<>>]

\* Variant: the zero zone starts at the lowest active level.
ZeroZonePriceLowest(active) == active[Len(active)]

\* const highestLevel = activeLevels[0]; const zeroZonePrice = highestLevel
ZeroZonePrice(active) == active[1]

\* The whole function.  levelResults and winCounts are its local variables,
\* kept next to the result.
AnalyzeStrategyAdvice(strats, levels, target, size, bMin, bMax, bStep) ==
    LET active == ActiveLevels(levels)
        loop == LevelLoop(1, [winCounts |-> <<>>, levelResults |-> <<>>],
                          strats, active, target, size)
        merged == MergeSegments(loop.levelResults)
        best == FindBest(loop.winCounts)
    IN  IF Len(strats) = 0 THEN NullAdvice
        ELSE IF Len(active) = 0 THEN NullAdvice
        ELSE [isNull |-> FALSE,
              zeroZonePrice |-> ZeroZonePrice(active),
              segments |-> ResultSegments(merged),
              bestStrategy |-> best,
              coveragePct |-> CoveragePct(merged, best, active, bMin, bMax, bStep),
              levelResults |-> loop.levelResults,
              winCounts |-> loop.winCounts]

(***************************************************************************)
(* AdvicePanel: the bottom-price range shown for a segment.                *)
(***************************************************************************)
\* seg.isLast ? `<= rangeHigh` : `<= rangeHigh & > rangeLow`, as the pair of
\* prices shown: upper after the sign <=, lower after the sign >.  formatUSD
\* prints a whole price digit for digit, so the price stands for its text.
RangeStr(seg) ==
    IF seg.isLast
    THEN [upper |-> seg.rangeHigh, hasLower |-> FALSE, lower |-> 0]
    ELSE [upper |-> seg.rangeHigh, hasLower |-> TRUE, lower |-> seg.rangeLow]

(***************************************************************************)
(* generatePresetWeights                                                   *)
(***************************************************************************)
\* Variant: the weights grow with the square of the position.
PyramidWeightsSquared(levelCount) == [i \in 1..levelCount |-> i * i]

\* Array.from({ length: levelCount }, (_, i) => i + 1)
PyramidWeights(levelCount) == [i \in 1..levelCount |-> i]

\* pyramidWeights.reduce((a, b) => a + b, 0): a sum of whole numbers, exact
RECURSIVE PyramidSum(_)
PyramidSum(ws) ==
    IF ws = <<>> THEN 0 ELSE PyramidSum(SubSeq(ws, 1, Len(ws) - 1)) + ws[Len(ws)]

\* Variant: each weight is divided by the number of levels.
PyramidByCount(levelCount) ==
    [i \in 1..levelCount |-> DDivInt(PyramidWeights(levelCount)[i], levelCount)]

\* pyramidWeights.map((w) => w / pyramidSum)
Pyramid(levelCount) ==
    [i \in 1..levelCount |->
        DDivInt(PyramidWeights(levelCount)[i], PyramidSum(PyramidWeights(levelCount)))]

Reverse(s) == [i \in 1..Len(s) |-> s[Len(s) + 1 - i]]

\* Variant: pyramid.reverse(), which turns the array round in place and
\* returns that same array.
ReverseInPlace(pyramid) == [pyramid |-> Reverse(pyramid), inverted |-> Reverse(pyramid)]

\* const inverted = [...pyramid].reverse(): the copy is turned round, pyramid
\* stays as it is.
ReverseCopy(pyramid) == [pyramid |-> pyramid, inverted |-> Reverse(pyramid)]

\* Array(levelCount).fill(uniformBase);
\* uniform[levelCount - 1] = 1 - uniformBase * (levelCount - 1)
Uniform(levelCount) ==
    [i \in 1..levelCount |->
        IF i = levelCount
        THEN DSub(DOne, DMulInt(DDivInt(1, levelCount), levelCount - 1))
        ELSE DDivInt(1, levelCount)]

\* For levelCount = 0 the three arrays are empty (the assignment to
\* uniform[-1] adds a property, not an element).
GeneratePresetWeights(levelCount) ==
    [pyramid |-> ReverseCopy(Pyramid(levelCount)).pyramid,
     uniform |-> Uniform(levelCount),
     inverted |-> ReverseCopy(Pyramid(levelCount)).inverted]

STRATEGY_ORDER == <<"pyramid", "uniform", "inverted">>

(***************************************************************************)
(* generateExponentialWeights                                              *)
(* Math.pow is "implementation-approximated" in ECMAScript: the engine     *)
(* decides the last bit of the result.  Two builds are modelled: one that  *)
(* returns the double nearest to the exact power (a libm pow), and one     *)
(* that multiplies doubles (the square-and-multiply loop engines use for   *)
(* a small whole exponent).  They differ in the last bit from 1.8^4 on.    *)
(***************************************************************************)
\* The largest levelCount generateExponentialWeights is called with.
MaxExpLevelCount == 12

\* const EXPONENTIAL_BASE = 1.8: the double nearest to 9/5
EXPONENTIAL_BASE == DDivInt(9, 5)

MathPowBuilds == {"nearest", "squareAndMultiply"}

\* m^0, m^1, ..., m^k for a long number m, each from the one before.
RECURSIVE BPowers(_, _)
BPowers(m, k) ==
    IF k = 0 THEN <<<<1>>>>
    ELSE LET lower == BPowers(m, k - 1)
         IN  IF lower = <<>> THEN <<>>
             ELSE Append(lower, BMul(lower[k], m))

\* Math.pow(x, k) where the result is the double nearest to x^k
PowNearest(x, k) == RoundToDouble(BPowers(x.m, k)[k + 1], k * x.e)

\* Math.pow(x, y) where the result is built by the loop
\* while (y) { if (y & 1) result *= x; x *= x; y >>= 1; }
\* (once x or result is 0 the result is 0; the test also has each product
\* worked out before the next round)
RECURSIVE PowSquareAndMultiply(_, _, _)
PowSquareAndMultiply(x, y, result) ==
    IF y = 0 THEN result
    ELSE IF x = DZero \/ result = DZero THEN DZero
    ELSE PowSquareAndMultiply(DMul(x, x), y \div 2,
                              IF y % 2 = 1 THEN DMul(result, x) ELSE result)

\* Math.pow(x, k) for a whole k >= 0
MathPow(build, x, k) ==
    IF build = "nearest" THEN PowNearest(x, k)
    ELSE PowSquareAndMultiply(x, k, DOne)

\* Math.pow(EXPONENTIAL_BASE, k), kept per build and exponent.
PowersOfBase ==
    [build \in MathPowBuilds |->
        [k \in 0..MaxExpLevelCount |-> MathPow(build, EXPONENTIAL_BASE, k)]]

\* Variant: the exponent grows with the index.
ExponentialRawAscending(build, levelCount) ==
    [i \in 1..levelCount |-> PowersOfBase[build][i - 1]]

\* Array.from({ length: levelCount }, (_, i) =>
\*     Math.pow(EXPONENTIAL_BASE, levelCount - 1 - i))
ExponentialRaw(build, levelCount) ==
    [i \in 1..levelCount |-> PowersOfBase[build][levelCount - i]]

\* weights.reduce((a, b) => a + b, 0)
RECURSIVE ReduceSum(_)
ReduceSum(ws) ==
    IF ws = <<>> THEN DZero
    ELSE DAdd(ReduceSum(SubSeq(ws, 1, Len(ws) - 1)), ws[Len(ws)])

\* weights.map((w) => w / sum)
ExponentialNormalised(weights, sum) ==
    [i \in 1..Len(weights) |-> DDiv(weights[i], sum)]

GenerateExponentialWeights(build, levelCount) ==
    ExponentialNormalised(ExponentialRaw(build, levelCount),
                          ReduceSum(ExponentialRaw(build, levelCount)))

(***************************************************************************)
(* useSimulator: the custom allocation and the strategies compared.        *)
(***************************************************************************)
\* list.reduce((sum, l) => sum + l.weight, 0)
RECURSIVE WeightSum(_)
WeightSum(ls) ==
    IF ls = <<>> THEN DZero
    ELSE DAdd(WeightSum(SubSeq(ls, 1, Len(ls) - 1)), ls[Len(ls)].weight)

\* CONSTANTS.ALLOCATION_TOLERANCE: the literal 0.005
ALLOCATION_TOLERANCE == DDivInt(5, 1000)

\* customWeightSum > TOL && customWeightSum < 1 + TOL
IsCustomWeightValid(customWeightSum) ==
    /\ DLess(ALLOCATION_TOLERANCE, customWeightSum)
    /\ DLess(customWeightSum, DAdd(DOne, ALLOCATION_TOLERANCE))

\* config.priceLevels.filter((p) => p > 0)
ActivePriceLevels(levels) == SelectSeq(levels, LAMBDA p : p > 0)

\* activePriceLevels.map((price, i) => ({ price, weight: strategies[name][i] ?? 0 }))
PresetAllocations(levels, weights) ==
    [i \in 1..Len(ActivePriceLevels(levels)) |->
        [price |-> ActivePriceLevels(levels)[i],
         weight |-> IF i <= Len(weights) THEN weights[i] ELSE DZero]]

\* useMemo(() => generatePresetWeights(activePriceLevels.length || 1),
\* [activePriceLevels.length]): the preset weights, kept per number of
\* active levels.
Strategies ==
    [n \in 0..MaxLevels |-> GeneratePresetWeights(IF n = 0 THEN 1 ELSE n)]

\* The presets always, custom only when isCustomWeightValid.
ComparableStrategies(levels, custom) ==
    LET strats == Strategies[Len(ActivePriceLevels(levels))]
        list == [k \in 1..Len(STRATEGY_ORDER) |->
                    [name |-> STRATEGY_ORDER[k],
                     allocations |-> PresetAllocations(levels, strats[STRATEGY_ORDER[k]])]]
    IN  IF IsCustomWeightValid(WeightSum(custom))
        THEN Append(list, [name |-> "custom",
                           allocations |-> SelectSeq(custom, LAMBDA l : l.price > 0)])
        ELSE list

\* The names ranked by profitRankings: the presets, and custom when
\* isCustomWeightValid.
RankedNames(custom) ==
    IF IsCustomWeightValid(WeightSum(custom))
    THEN Append(STRATEGY_ORDER, "custom")
    ELSE STRATEGY_ORDER

(***************************************************************************)
(* State.  The engine is a pair of pure functions; a state holds the       *)
(* arguments of one call and, once the call is made, what it returned.     *)
(***************************************************************************)
VARIABLES
    pc,              \* "args": before the call, "returned": after it
    allocations,     \* calculatePositionStats: allocations
    thresholdPrice,  \* calculatePositionStats: reboundPrice
    metrics,         \* calculatePositionStats: the PositionMetrics returned
    strategies,      \* analyzeStrategyAdvice: strategies
    priceLevels,     \* analyzeStrategyAdvice: priceLevels
    targetPrice,     \* both: targetPrice
    totalSize,       \* both: totalSize
    bottomMin,       \* analyzeStrategyAdvice: bottomMin
    bottomMax,       \* analyzeStrategyAdvice: bottomMax
    bottomStep,      \* analyzeStrategyAdvice: bottomStep
    advice,          \* analyzeStrategyAdvice: the value returned
    levelCount,      \* generatePresetWeights: levelCount
    presetWeights,   \* generatePresetWeights: the object returned
    customAllocations, \* useSimulator: the customAllocations state
    mathPow,         \* the build of Math.pow the engine runs
    rawWeights,      \* generateExponentialWeights: weights, before normalising
    rawSum,          \* generateExponentialWeights: sum
    exponentialWeights, \* generateExponentialWeights: the array returned
    weightsByCount,  \* useSimulator: what generateExponentialWeights returns, by level count
    isCustomActive,  \* useSimulator: the isCustomActive state
    event,           \* useSimulator: the handler that ran last, with its arguments
    bottomPrice,     \* useSimulator: the bottomPrice state
    p,               \* profitCurves: the loop variable p
    prices           \* profitCurves: the number of prices pushed so far

\* The state of a call of generateExponentialWeights.
expVars == <<mathPow, rawWeights, rawSum, exponentialWeights, weightsByCount>>

\* The state of useSimulator beyond the custom allocation.
hookVars == <<isCustomActive, event, bottomPrice, p, prices>>

vars == <<pc, allocations, thresholdPrice, metrics, strategies, priceLevels,
          targetPrice, totalSize, bottomMin, bottomMax, bottomStep, advice,
          levelCount, presetWeights, customAllocations, expVars, hookVars>>

NoEvent == [handler |-> "none", index |-> 0, step |-> 0, reset |-> FALSE]

\* No call of generateExponentialWeights is under way.
ExpIdle ==
    /\ mathPow = "nearest"
    /\ rawWeights = <<>>
    /\ rawSum = DZero
    /\ exponentialWeights = <<>>
    /\ weightsByCount = <<>>

\* The rest of the hook plays no part.
HookIdle ==
    /\ isCustomActive = FALSE
    /\ event = NoEvent
    /\ bottomPrice = 0
    /\ p = 0
    /\ prices = 0

NoWeights == [pyramid |-> <<>>, uniform |-> <<>>, inverted |-> <<>>]

\* Sequences over S of length at most n.
SeqsUpTo(S, n) == UNION {[1..k -> S] : k \in 0..n}

Targets == {LowTarget, HighTarget}

(***************************************************************************)
(* Specification SpecStats: one call of calculatePositionStats.            *)
(***************************************************************************)
AllocationValues == [price : 1..MaxPrice, weight : 0..(MaxWeight + 1)]

InitStats ==
    /\ pc = "args"
    /\ allocations \in SeqsUpTo(AllocationValues, MaxAllocs)
    /\ thresholdPrice \in 0..(MaxPrice + 1)
    /\ targetPrice \in Targets
    /\ totalSize \in 0..(MaxSize + 1)
    /\ metrics = ZeroMetrics
    /\ strategies = <<>>
    /\ priceLevels = <<>>
    /\ bottomMin = 0
    /\ bottomMax = 0
    /\ bottomStep = 1
    /\ advice = NullAdvice
    /\ levelCount = 0
    /\ presetWeights = NoWeights
    /\ customAllocations = <<>>
    /\ ExpIdle
    /\ HookIdle

CallCalculatePositionStats ==
    /\ pc = "args"
    /\ pc' = "returned"
    /\ metrics' = CalculatePositionStats(allocations, thresholdPrice,
                                         targetPrice, totalSize)
    /\ UNCHANGED <<allocations, thresholdPrice, strategies, priceLevels,
                   targetPrice, totalSize, bottomMin, bottomMax, bottomStep,
                   advice, levelCount, presetWeights, customAllocations,
                   expVars, hookVars>>

NextStats == CallCalculatePositionStats

SpecStats == InitStats /\ [][NextStats]_vars

(***************************************************************************)
(* Specifications Spec and SpecSweep: one call of analyzeStrategyAdvice.   *)
(* The strategies are built as useSimulator builds comparableStrategies:   *)
(* one allocation per active price level, in the order of priceLevels.     *)
(* Spec draws the strategies from every list of names and keeps the sweep  *)
(* range fixed (the levels lie inside it, one step apart at most);         *)
(* SpecSweep draws the sweep range as well, over preset strategies.        *)
(***************************************************************************)
\* A full descending ladder of levels, the shape of DEFAULT_CONFIG.priceLevels.
Ladder == [j \in 1..LadderLen |-> LadderLen + 1 - j]

PriceLists == SeqsUpTo(0..MaxPrice, MaxLevels) \cup {Ladder}

NameLists ==
    {<<>>, <<"pyramid">>, <<"pyramid", "uniform">>, <<"pyramid", "custom">>,
     <<"custom", "pyramid">>}

PresetNameLists == {<<>>, <<"pyramid">>, <<"pyramid", "uniform">>}

\* activePriceLevels.map((price, i) => ({ price, weight: weights[i] }))
AllocationsOf(levels, weights) ==
    [j \in 1..Len(ActivePriceLevels(levels)) |->
        [price |-> ActivePriceLevels(levels)[j], weight |-> weights[j]]]

StrategyLists(levels, nameLists) ==
    LET n == Len(ActivePriceLevels(levels))
        W == [1..n -> 0..MaxWeight]
    IN  UNION {
          {[k \in 1..Len(names) |->
              [name |-> names[k], allocations |-> AllocationsOf(levels, ws[k])]]
           : ws \in [1..Len(names) -> W]}
          : names \in nameLists}

SweepMins == {0, MaxStep}

SweepMaxs == {MaxStep, MaxPrice + 1}

SweepSteps == 1..MaxStep

InitAdvice(nameLists, mins, maxs, steps) ==
    /\ pc = "args"
    /\ priceLevels \in PriceLists
    /\ strategies \in StrategyLists(priceLevels, nameLists)
    /\ targetPrice \in Targets
    /\ totalSize \in 1..MaxSize
    /\ bottomMin \in mins
    /\ bottomMax \in maxs
    /\ bottomStep \in steps
    /\ advice = NullAdvice
    /\ allocations = <<>>
    /\ thresholdPrice = 0
    /\ metrics = ZeroMetrics
    /\ levelCount = 0
    /\ presetWeights = NoWeights
    /\ customAllocations = <<>>
    /\ ExpIdle
    /\ HookIdle

Init == InitAdvice(NameLists, {0}, {MaxPrice + 1}, {1})

InitSweep == InitAdvice(PresetNameLists, SweepMins, SweepMaxs, SweepSteps)

CallAnalyzeStrategyAdvice ==
    /\ pc = "args"
    /\ pc' = "returned"
    /\ advice' = AnalyzeStrategyAdvice(strategies, priceLevels, targetPrice,
                                       totalSize, bottomMin, bottomMax, bottomStep)
    /\ UNCHANGED <<allocations, thresholdPrice, metrics, strategies, priceLevels,
                   targetPrice, totalSize, bottomMin, bottomMax, bottomStep,
                   levelCount, presetWeights, customAllocations,
                   expVars, hookVars>>

Next == CallAnalyzeStrategyAdvice

Spec == Init /\ [][Next]_vars

SpecSweep == InitSweep /\ [][Next]_vars

(***************************************************************************)
(* Specification SpecAnySweep: one call of analyzeStrategyAdvice with      *)
(* sweep parameters of any kind: a step that is negative, zero or          *)
(* positive, and a range that is reversed, empty or proper.  The engine    *)
(* takes the numbers as they come; nothing upstream validates them.        *)
(***************************************************************************)
AnySweepMins == {MaxStep}

AnySweepMaxs == {0, MaxStep, MaxPrice + 1}

AnySweepSteps == (0 - 1)..1

InitAnySweep ==
    InitAdvice(PresetNameLists, AnySweepMins, AnySweepMaxs, AnySweepSteps)

SpecAnySweep == InitAnySweep /\ [][Next]_vars

(***************************************************************************)
(* Specification SpecWeights: one call of generatePresetWeights.           *)
(***************************************************************************)
MaxLevelCount == 50

InitWeights ==
    /\ pc = "args"
    /\ levelCount \in 0..MaxLevelCount
    /\ presetWeights = NoWeights
    /\ customAllocations = <<>>
    /\ allocations = <<>>
    /\ thresholdPrice = 0
    /\ metrics = ZeroMetrics
    /\ strategies = <<>>
    /\ priceLevels = <<>>
    /\ targetPrice = 0
    /\ totalSize = 0
    /\ bottomMin = 0
    /\ bottomMax = 0
    /\ bottomStep = 1
    /\ advice = NullAdvice
    /\ ExpIdle
    /\ HookIdle

CallGeneratePresetWeights ==
    /\ pc = "args"
    /\ pc' = "returned"
    /\ presetWeights' = GeneratePresetWeights(levelCount)
    /\ UNCHANGED <<allocations, thresholdPrice, metrics, strategies, priceLevels,
                   targetPrice, totalSize, bottomMin, bottomMax, bottomStep,
                   advice, levelCount, customAllocations, expVars, hookVars>>

NextWeights == CallGeneratePresetWeights

SpecWeights == InitWeights /\ [][NextWeights]_vars

(***************************************************************************)
(* Specification SpecExp: one call of generateExponentialWeights, a        *)
(* statement at a time: the powers, their sum, the quotients.              *)
(***************************************************************************)
InitExp ==
    /\ pc = "args"
    /\ levelCount \in 0..MaxExpLevelCount
    /\ mathPow \in MathPowBuilds
    /\ rawWeights = <<>>
    /\ rawSum = DZero
    /\ exponentialWeights = <<>>
    /\ weightsByCount = <<>>
    /\ presetWeights = NoWeights
    /\ customAllocations = <<>>
    /\ allocations = <<>>
    /\ thresholdPrice = 0
    /\ metrics = ZeroMetrics
    /\ strategies = <<>>
    /\ priceLevels = <<>>
    /\ targetPrice = 0
    /\ totalSize = 0
    /\ bottomMin = 0
    /\ bottomMax = 0
    /\ bottomStep = 1
    /\ advice = NullAdvice
    /\ HookIdle

\* const weights = Array.from({ length: levelCount }, ...)
ArrayFromPowers ==
    /\ pc = "args"
    /\ pc' = "weights"
    /\ rawWeights' = ExponentialRaw(mathPow, levelCount)
    /\ UNCHANGED <<allocations, thresholdPrice, metrics, strategies, priceLevels,
                   targetPrice, totalSize, bottomMin, bottomMax, bottomStep,
                   advice, levelCount, presetWeights, customAllocations,
                   mathPow, rawSum, exponentialWeights, weightsByCount, hookVars>>

\* const sum = weights.reduce((a, b) => a + b, 0)
ReduceWeights ==
    /\ pc = "weights"
    /\ pc' = "sum"
    /\ rawSum' = ReduceSum(rawWeights)
    /\ UNCHANGED <<allocations, thresholdPrice, metrics, strategies, priceLevels,
                   targetPrice, totalSize, bottomMin, bottomMax, bottomStep,
                   advice, levelCount, presetWeights, customAllocations,
                   mathPow, rawWeights, exponentialWeights, weightsByCount, hookVars>>

\* return weights.map((w) => w / sum)
MapNormalise ==
    /\ pc = "sum"
    /\ pc' = "returned"
    /\ exponentialWeights' = ExponentialNormalised(rawWeights, rawSum)
    /\ UNCHANGED <<allocations, thresholdPrice, metrics, strategies, priceLevels,
                   targetPrice, totalSize, bottomMin, bottomMax, bottomStep,
                   advice, levelCount, presetWeights, customAllocations,
                   mathPow, rawWeights, rawSum, weightsByCount, hookVars>>

NextExp == ArrayFromPowers \/ ReduceWeights \/ MapNormalise

SpecExp == InitExp /\ [][NextExp]_vars

(***************************************************************************)
(* Specification SpecHook: the custom allocation of useSimulator.  The     *)
(* sliders of the strategy selector set one weight at a time, in steps of  *)
(* 0.01 from 0 to MAX_LEVEL_WEIGHT; what is compared is derived from the   *)
(* state on every render.                                                  *)
(***************************************************************************)
\* CONSTANTS.MAX_LEVEL_WEIGHT = 0.4, in slider steps of 0.01
MAX_LEVEL_WEIGHT == 40

\* The slider positions tried: both ends, the first step and the middle.
SliderSteps == {0, 1, MAX_LEVEL_WEIGHT \div 2, MAX_LEVEL_WEIGHT}

\* Number(e.target.value) of a slider at position k: the double nearest to
\* k / 100
SliderValues == [k \in SliderSteps |-> DDivInt(k, 100)]

SliderValue(k) == SliderValues[k]

HookPriceLists == [1..MaxLevels -> 0..MaxPrice]

InitHook ==
    /\ pc = "render"
    /\ priceLevels \in HookPriceLists
    /\ customAllocations \in
          {[j \in 1..Len(priceLevels) |->
              [price |-> priceLevels[j], weight |-> SliderValue(ks[j])]]
           : ks \in [1..Len(priceLevels) -> SliderSteps]}
    /\ levelCount = 0
    /\ presetWeights = NoWeights
    /\ allocations = <<>>
    /\ thresholdPrice = 0
    /\ metrics = ZeroMetrics
    /\ strategies = <<>>
    /\ targetPrice = 0
    /\ totalSize = 0
    /\ bottomMin = 0
    /\ bottomMax = 0
    /\ bottomStep = 1
    /\ advice = NullAdvice
    /\ ExpIdle
    /\ HookIdle

\* const updated = [...customAllocations];
\* updated[index] = { ...updated[index], weight: newWeight }
WithCustomWeight(index, newWeight) ==
    [customAllocations EXCEPT ![index + 1].weight = newWeight]

\* updateCustomWeight, called on a render of the hook.
UpdateCustomWeight(index, newWeight) ==
    /\ pc = "render"
    /\ customAllocations' = WithCustomWeight(index, newWeight)
    /\ UNCHANGED <<pc, allocations, thresholdPrice, metrics, strategies,
                   priceLevels, targetPrice, totalSize, bottomMin, bottomMax,
                   bottomStep, advice, levelCount, presetWeights, expVars,
                   hookVars>>

NextHook ==
    \E index \in 0..(Len(customAllocations) - 1) :
        \E k \in SliderSteps : UpdateCustomWeight(index, SliderValue(k))

SpecHook == InitHook /\ [][NextHook]_vars

(***************************************************************************)
(* Specification SpecConfig: the price-level fields of the config panel    *)
(* and the custom sliders of the strategy selector, over the state of      *)
(* useSimulator.  Every handler runs to its end on the latest render; the  *)
(* handlers come in any order.                                             *)
(***************************************************************************)
\* Number(e.target.value) || 0 of a price field: an empty field gives 0, a
\* typed number itself, a negative one included.
TypedPrices == (0 - 1)..MaxPrice

\* The slider positions tried here: both ends.
ConfigSliderSteps == {0, MAX_LEVEL_WEIGHT}

\* DEFAULT_CONFIG.priceLevels: a full descending ladder.
DefaultPriceLevels == [j \in 1..MaxLevels |-> MaxLevels + 1 - j]

\* generateExponentialWeights is a pure function of the level count and of
\* the engine's Math.pow: what it returns for the level counts the panel can
\* hold, worked out when the hook is mounted and looked up at every call.
ExponentialWeightsByCount(build) ==
    [n \in 1..MaxLevels |-> GenerateExponentialWeights(build, n)]

\* useState(() => DEFAULT_CONFIG.priceLevels.map((price, i) =>
\*                    ({ price, weight: weights[i] })))
InitialCustomAllocations(weights) ==
    [j \in 1..Len(DefaultPriceLevels) |->
        [price |-> DefaultPriceLevels[j], weight |-> weights[j]]]

\* resetCustomAllocations(newConfig), for newConfig.priceLevels = levels
ResetCustomAllocations(levels) ==
    LET activeLevels == SelectSeq(levels, LAMBDA x : x > 0)
        weights == weightsByCount[
                       IF Len(activeLevels) = 0 THEN 1 ELSE Len(activeLevels)]
    IN  [j \in 1..Len(levels) |->
            LET activeIndex == IndexOf(activeLevels, levels[j])
            IN  [price |-> levels[j],
                 weight |-> IF activeIndex >= 1 THEN weights[activeIndex]
                            ELSE DZero]]

\* sortPriceLevels: the values > 0 descending, then the zeros; a negative
\* value is in neither part.
SortPriceLevels(levels) ==
    SortDesc(SelectSeq(levels, LAMBDA x : x > 0))
        \o SelectSeq(levels, LAMBDA x : x = 0)

\* customAllocations.filter((l) => l.price > 0): the rows the strategy
\* selector shows in custom mode.
ActiveAllocations == SelectSeq(customAllocations, LAMBDA l : l.price > 0)

InitConfig ==
    /\ pc = "render"
    /\ mathPow \in MathPowBuilds
    /\ priceLevels = DefaultPriceLevels
    /\ weightsByCount = ExponentialWeightsByCount(mathPow)
    /\ customAllocations =
          InitialCustomAllocations(weightsByCount[Len(DefaultPriceLevels)])
    /\ isCustomActive = FALSE
    /\ event = NoEvent
    /\ rawWeights = <<>>
    /\ rawSum = DZero
    /\ exponentialWeights = <<>>
    /\ bottomPrice = 0
    /\ p = 0
    /\ prices = 0
    /\ levelCount = 0
    /\ presetWeights = NoWeights
    /\ allocations = <<>>
    /\ thresholdPrice = 0
    /\ metrics = ZeroMetrics
    /\ strategies = <<>>
    /\ targetPrice = 0
    /\ totalSize = 0
    /\ bottomMin = 0
    /\ bottomMax = 0
    /\ bottomStep = 1
    /\ advice = NullAdvice

\* What no handler of this specification touches.
configFrame ==
    <<pc, allocations, thresholdPrice, metrics, strategies, targetPrice,
      totalSize, bottomMin, bottomMax, bottomStep, advice, levelCount,
      presetWeights, expVars, bottomPrice, p, prices>>

\* onChange of the price field of slot i (counted from 0)
ChangePriceLevel(i, value) ==
    /\ pc = "render"
    /\ i < Len(priceLevels)
    /\ priceLevels' = [priceLevels EXCEPT ![i + 1] = value]
    /\ customAllocations' = ResetCustomAllocations(priceLevels')
    /\ event' = [handler |-> "priceLevelChange", index |-> i, step |-> 0,
                 reset |-> TRUE]
    /\ UNCHANGED <<isCustomActive, configFrame>>

\* onBlur of a price field
BlurPriceLevel ==
    /\ pc = "render"
    /\ LET sortedLevels == SortPriceLevels(priceLevels)
           changed == \E j \in 1..Len(sortedLevels) :
                          sortedLevels[j] # priceLevels[j]
       IN  /\ IF changed
              THEN /\ priceLevels' = sortedLevels
                   /\ customAllocations' = ResetCustomAllocations(sortedLevels)
              ELSE UNCHANGED <<priceLevels, customAllocations>>
           /\ event' = [handler |-> "priceLevelBlur", index |-> 0, step |-> 0,
                        reset |-> changed]
    /\ UNCHANGED <<isCustomActive, configFrame>>

\* selectPreset
SelectPreset ==
    /\ pc = "render"
    /\ isCustomActive' = FALSE
    /\ event' = [handler |-> "selectPreset", index |-> 0, step |-> 0,
                 reset |-> FALSE]
    /\ UNCHANGED <<priceLevels, customAllocations, configFrame>>

\* selectCustom
SelectCustom ==
    /\ pc = "render"
    /\ isCustomActive' = TRUE
    /\ event' = [handler |-> "selectCustom", index |-> 0, step |-> 0,
                 reset |-> FALSE]
    /\ UNCHANGED <<priceLevels, customAllocations, configFrame>>

\* resetToDefault; the sweep range of the configuration is not edited in
\* this specification and has its default value throughout.
ResetToDefault ==
    /\ pc = "render"
    /\ priceLevels' = DefaultPriceLevels
    /\ customAllocations' = ResetCustomAllocations(DefaultPriceLevels)
    /\ isCustomActive' = FALSE
    /\ event' = [handler |-> "resetToDefault", index |-> 0, step |-> 0,
                 reset |-> TRUE]
    /\ UNCHANGED configFrame

\* The slider of row index of the strategy selector at position k; the
\* sliders are there in custom mode only, one for each active allocation.
SlideRow(index, k) ==
    /\ pc = "render"
    /\ isCustomActive
    /\ index < Len(ActiveAllocations)
    /\ customAllocations' = WithCustomWeight(index, SliderValue(k))
    /\ event' = [handler |-> "updateCustomWeight", index |-> index, step |-> k,
                 reset |-> FALSE]
    /\ UNCHANGED <<priceLevels, isCustomActive, configFrame>>

NextConfig ==
    \/ \E i \in 0..(MaxLevels - 1) : \E value \in TypedPrices :
          ChangePriceLevel(i, value)
    \/ BlurPriceLevel
    \/ SelectPreset
    \/ SelectCustom
    \/ ResetToDefault
    \/ \E index \in 0..(MaxLevels - 1) : \E k \in ConfigSliderSteps :
          SlideRow(index, k)

SpecConfig == InitConfig /\ [][NextConfig]_vars

(***************************************************************************)
(* Specification SpecBottom: the sweep range of the configuration and the  *)
(* bottom price of useSimulator.  A change of the range is followed by a   *)
(* render, in which the profitCurves loop builds the sweep points one turn *)
(* at a time, and then by the auto-adjust effect; the arrow keys and the   *)
(* buttons of the bottom slider act between renders.  Prices are whole     *)
(* numbers, DEFAULT_CONFIG scaled down.                                    *)
(***************************************************************************)
MaxBottom == 5
MaxBottomStep == 3

\* The loop is followed for at most this many turns; a sweep inside
\* 0..MaxBottom with a step >= 1 has fewer.
MaxPushed == MaxBottom + 2

\* DEFAULT_CONFIG.bottomMin, bottomMax, bottomStep
DefaultBottomMin == 1
DefaultBottomMax == MaxBottom
DefaultBottomStep == 1

\* The bottom prices followed: with a step below 0 the buttons move the
\* price away from the range without end.
PriceWindow == (0 - MaxBottomStep)..(MaxBottom + MaxBottomStep)

\* Number(e.target.value) || 0 of the range fields: an empty field gives 0.
TypedBounds == 0..MaxBottom

TypedSteps == (0 - 1)..MaxBottomStep

\* Math.round(n / d) for d > 0: halves go up.
MathRoundRatio(n, d) == (2 * n + d) \div (2 * d)

\* Math.round((middle - bottomMin) / bottomStep) * bottomStep + bottomMin,
\* with middle = (bottomMin + bottomMax) / 2
AlignedMiddle(bMin, bMax, bStep) ==
    MathRoundRatio(bMax - bMin, 2 * bStep) * bStep + bMin

\* Math.round((currentPrice - bottomMin) / bottomStep) * bottomStep + bottomMin
AlignedPrice(currentPrice, bMin, bStep) ==
    MathRoundRatio(currentPrice - bMin, bStep) * bStep + bMin

\* Math.max(bottomMin, Math.min(bottomMax, price))
Clamped(price, bMin, bMax) == Max(bMin, Min(bMax, price))

\* The updater the auto-adjust effect passes to setBottomPrice.
AutoAdjusted(currentPrice, bMin, bMax, bStep) ==
    LET clampedMiddle == Clamped(AlignedMiddle(bMin, bMax, bStep), bMin, bMax)
        clampedPrice == Clamped(AlignedPrice(currentPrice, bMin, bStep), bMin, bMax)
    IN  IF currentPrice < bMin \/ currentPrice > bMax THEN clampedMiddle
        ELSE IF clampedPrice # currentPrice THEN clampedPrice
        ELSE currentPrice

InitBottom ==
    /\ pc = "render"
    /\ bottomMin = DefaultBottomMin
    /\ bottomMax = DefaultBottomMax
    /\ bottomStep = DefaultBottomStep
    /\ bottomPrice = AlignedMiddle(DefaultBottomMin, DefaultBottomMax, DefaultBottomStep)
    /\ p = 0
    /\ prices = 0
    /\ event = NoEvent
    /\ isCustomActive = FALSE
    /\ ExpIdle
    /\ priceLevels = <<>>
    /\ customAllocations = <<>>
    /\ levelCount = 0
    /\ presetWeights = NoWeights
    /\ allocations = <<>>
    /\ thresholdPrice = 0
    /\ metrics = ZeroMetrics
    /\ strategies = <<>>
    /\ targetPrice = 0
    /\ totalSize = 0
    /\ advice = NullAdvice

\* What no step of this specification touches.
bottomFrame ==
    <<allocations, thresholdPrice, metrics, strategies, priceLevels,
      targetPrice, totalSize, advice, levelCount, presetWeights,
      customAllocations, expVars, isCustomActive>>

\* onConfigChange with a new sweep range: the state is set and the next
\* render starts the profitCurves loop, let p = config.bottomMin.
SetRange(handler, bMin, bMax, bStep) ==
    /\ pc = "render"
    /\ <<bMin, bMax, bStep>> # <<bottomMin, bottomMax, bottomStep>>
    /\ bottomMin' = bMin
    /\ bottomMax' = bMax
    /\ bottomStep' = bStep
    /\ pc' = "sweep"
    /\ p' = bMin
    /\ prices' = 0
    /\ event' = [handler |-> handler, index |-> 0, step |-> 0, reset |-> FALSE]
    /\ UNCHANGED <<bottomPrice, bottomFrame>>

\* onChange of the three fields of the range
ChangeBottomMin(value) == SetRange("bottomMinChange", value, bottomMax, bottomStep)

ChangeBottomMax(value) == SetRange("bottomMaxChange", bottomMin, value, bottomStep)

ChangeBottomStep(value) == SetRange("bottomStepChange", bottomMin, bottomMax, value)

\* onBlur of the three fields: if (!val || val < 1) the field is set to 1
BlurBottomMin == bottomMin < 1 /\ SetRange("bottomMinBlur", 1, bottomMax, bottomStep)

BlurBottomMax == bottomMax < 1 /\ SetRange("bottomMaxBlur", bottomMin, 1, bottomStep)

BlurBottomStep == bottomStep < 1 /\ SetRange("bottomStepBlur", bottomMin, bottomMax, 1)

\* The button of the recommended range: with two distinct active levels it
\* sets bottomMin and bottomMax to multiples of the step niceStep > 0 it
\* sets, bottomMin below bottomMax.
RecommendRange ==
    \E niceStep \in 1..MaxBottomStep :
        \E a \in 0..MaxBottom, b \in 0..MaxBottom :
            /\ a < b
            /\ b * niceStep <= MaxBottom
            /\ SetRange("recommended", a * niceStep, b * niceStep, niceStep)

\* resetToDefault: setConfig(DEFAULT_CONFIG)
ResetRange ==
    SetRange("resetToDefault", DefaultBottomMin, DefaultBottomMax, DefaultBottomStep)

\* One test of the loop for (let p = bottomMin; p <= bottomMax; p += bottomStep)
\* and, if it passes, one turn: prices.push(p).  When the test fails the
\* render goes on and the effects are run.
SweepTurn ==
    /\ pc = "sweep"
    /\ IF p <= bottomMax
       THEN /\ prices < MaxPushed
            /\ prices' = prices + 1
            /\ p' = p + bottomStep
            /\ pc' = pc
       ELSE /\ pc' = "effect"
            /\ UNCHANGED <<p, prices>>
    /\ UNCHANGED <<bottomMin, bottomMax, bottomStep, bottomPrice, event, bottomFrame>>

\* The auto-adjust effect, run after the render because the range changed.
AutoAdjust ==
    /\ pc = "effect"
    /\ pc' = "render"
    /\ bottomPrice' =
          IF bottomMin >= bottomMax \/ bottomStep <= 0 THEN bottomPrice
          ELSE AutoAdjusted(bottomPrice, bottomMin, bottomMax, bottomStep)
    /\ UNCHANGED <<bottomMin, bottomMax, bottomStep, p, prices, event, bottomFrame>>

\* handleKeyDown for ArrowLeft and ArrowRight
ArrowKey(key) ==
    /\ pc = "render"
    /\ LET delta == IF key = "ArrowRight" THEN bottomStep ELSE 0 - bottomStep
           next == bottomPrice + delta
       IN  bottomPrice' = Clamped(next, bottomMin, bottomMax)
    /\ event' = [handler |-> key, index |-> 0, step |-> 0, reset |-> FALSE]
    /\ UNCHANGED <<pc, bottomMin, bottomMax, bottomStep, p, prices, bottomFrame>>

\* The button "-" of the bottom slider
MinusButton ==
    /\ pc = "render"
    /\ bottomPrice' = Max(bottomMin, bottomPrice - bottomStep)
    /\ bottomPrice' \in PriceWindow
    /\ event' = [handler |-> "minus", index |-> 0, step |-> 0, reset |-> FALSE]
    /\ UNCHANGED <<pc, bottomMin, bottomMax, bottomStep, p, prices, bottomFrame>>

\* The button "+" of the bottom slider
PlusButton ==
    /\ pc = "render"
    /\ bottomPrice' = Min(bottomMax, bottomPrice + bottomStep)
    /\ bottomPrice' \in PriceWindow
    /\ event' = [handler |-> "plus", index |-> 0, step |-> 0, reset |-> FALSE]
    /\ UNCHANGED <<pc, bottomMin, bottomMax, bottomStep, p, prices, bottomFrame>>

NextBottom ==
    \/ \E value \in TypedBounds : ChangeBottomMin(value)
    \/ \E value \in TypedBounds : ChangeBottomMax(value)
    \/ \E value \in TypedSteps : ChangeBottomStep(value)
    \/ BlurBottomMin
    \/ BlurBottomMax
    \/ BlurBottomStep
    \/ RecommendRange
    \/ ResetRange
    \/ SweepTurn
    \/ AutoAdjust
    \/ \E key \in {"ArrowLeft", "ArrowRight"} : ArrowKey(key)
    \/ MinusButton
    \/ PlusButton

SpecBottom == InitBottom /\ [][NextBottom]_vars

(***************************************************************************)
(* Definitions shared by the properties.                                   *)
(***************************************************************************)
\* The sum of fn[x] over the finite set S.
RECURSIVE SumFn(_, _)
SumFn(S, fn) ==
    IF S = {} THEN 0
    ELSE LET x == CHOOSE y \in S : TRUE IN fn[x] + SumFn(S \ {x}, fn)

Returned == pc = "returned"

\* The filled set F of the call of calculatePositionStats, as positions.
FilledSet ==
    {j \in 1..Len(allocations) : allocations[j].price >= thresholdPrice}

(***************************************************************************)
(* Properties of calculatePositionStats (SpecStats).                       *)
(***************************************************************************)
\* C1: when the filled set F = {a : a.price >= thresholdPrice} is not empty,
\* every metric is computed over exactly F: filledPosition = totalSize * sum
\* of the weights in F, totalCost = totalSize * sum of weight * price in F,
\* avgCost = totalCost / filledPosition, valueAtTarget = filledPosition *
\* targetPrice, profit = valueAtTarget - totalCost, roi = profit / totalCost
\* * 100.
C1_MetricsOverFilledSet ==
    (Returned /\ FilledSet # {}) =>
        LET sumW == SumFn(FilledSet, [j \in FilledSet |-> allocations[j].weight])
            sumWP == SumFn(FilledSet,
                        [j \in FilledSet |->
                            allocations[j].weight * allocations[j].price])
        IN  /\ metrics.filledPosition = totalSize * sumW
            /\ metrics.totalCost = totalSize * sumWP
            /\ metrics.avgCost = NumDiv(Int2Num(totalSize * sumWP),
                                        Int2Num(totalSize * sumW))
            /\ (totalSize * sumW # 0 =>
                    /\ metrics.avgCost.kind = "fin"
                    /\ metrics.avgCost.n * (totalSize * sumW)
                         = metrics.avgCost.d * (totalSize * sumWP))
            /\ metrics.valueAtTarget = totalSize * sumW * targetPrice
            /\ metrics.profit = totalSize * sumW * targetPrice - totalSize * sumWP
            /\ metrics.roi = NumMul(NumDiv(Int2Num(metrics.profit),
                                           Int2Num(totalSize * sumWP)),
                                    Int2Num(100))
            /\ (totalSize * sumWP # 0 =>
                    /\ metrics.roi.kind = "fin"
                    /\ metrics.roi.n * (totalSize * sumWP)
                         = metrics.roi.d * 100 * metrics.profit)

\* A call in which one allocation sits exactly on the threshold, another one
\* lies below it, and the filled part makes a profit.
C1_Witness ==
    /\ Returned
    /\ \E j \in FilledSet : allocations[j].price = thresholdPrice
                            /\ allocations[j].weight > 0
    /\ \E j \in 1..Len(allocations) : j \notin FilledSet /\ allocations[j].weight > 0
    /\ metrics.profit > 0

\* C13: if no allocation has price >= thresholdPrice (the allocation list
\* may be empty), every metric returned is 0: filledPosition, totalCost,
\* avgCost, valueAtTarget, profit and roi, whatever targetPrice and totalSize.
C13_ZeroMetricsWhenNothingFilled ==
    (Returned /\ FilledSet = {}) =>
        /\ metrics.filledPosition = 0
        /\ metrics.totalCost = 0
        /\ metrics.avgCost = Int2Num(0)
        /\ metrics.valueAtTarget = 0
        /\ metrics.profit = 0
        /\ metrics.roi = Int2Num(0)

\* Allocations with weight exist, all of them below the threshold, and the
\* size is positive.
C13_Witness ==
    /\ Returned
    /\ FilledSet = {}
    /\ \E j \in 1..Len(allocations) : allocations[j].weight > 0
    /\ totalSize > 0

\* C14: for allocations with positive prices and weights >= 0 (0 allowed),
\* any thresholdPrice and totalSize >= 0, outside the empty fill the divisors
\* of avgCost (filledPosition) and of roi (totalCost) are never zero, so that
\* avgCost and roi are finite numbers.
C14_NoZeroDivisor ==
    ( /\ Returned
      /\ FilledSet # {}
      /\ totalSize >= 0
      /\ \A j \in 1..Len(allocations) :
            allocations[j].price > 0 /\ allocations[j].weight >= 0 )
    => /\ metrics.filledPosition # 0
       /\ metrics.totalCost # 0
       /\ metrics.avgCost.kind = "fin"
       /\ metrics.roi.kind = "fin"

(***************************************************************************)
(* Properties of analyzeStrategyAdvice (Spec).                             *)
(***************************************************************************)
HasAdvice == Returned /\ ~advice.isNull

Active == ActiveLevels(priceLevels)

\* The profit of strategy k at rebound price b.
ProfitOf(k, b) ==
    CalculatePositionStats(strategies[k].allocations, b, targetPrice, totalSize).profit

\* The largest profit any strategy makes at rebound price b.
BestProfit(b) ==
    CHOOSE m \in {ProfitOf(k, b) : k \in 1..Len(strategies)} :
        \A k \in 1..Len(strategies) : ProfitOf(k, b) <= m

\* The strategies (positions) called name.
Named(name) == {k \in 1..Len(strategies) : strategies[k].name = name}

\* The entries of levelResults recorded for price P.
RecordsAt(P) ==
    {r \in 1..Len(advice.levelResults) : advice.levelResults[r].price = P}

\* C2: at every active level P, if the largest profit over the strategies is
\* <= 0 nothing is recorded for P; otherwise one winner is recorded for P
\* (once per occurrence of P in the active list), and its profit at P is the
\* largest profit and is > 0.
C2_WinnerPerLevel ==
    HasAdvice =>
        \A j \in 1..Len(Active) :
            LET P == Active[j]
                occurrences == {h \in 1..Len(Active) : Active[h] = P}
            IN  IF BestProfit(P) <= 0
                THEN RecordsAt(P) = {}
                ELSE /\ Cardinality(RecordsAt(P)) = Cardinality(occurrences)
                     /\ Cardinality({advice.levelResults[r].winner : r \in RecordsAt(P)}) = 1
                     /\ \A r \in RecordsAt(P) :
                          /\ Named(advice.levelResults[r].winner) # {}
                          /\ \A k \in Named(advice.levelResults[r].winner) :
                                /\ ProfitOf(k, P) = BestProfit(P)
                                /\ ProfitOf(k, P) > 0

\* A call with two strategies in which one level is skipped with a best
\* profit of exactly 0 and another level is recorded.
C2_Witness ==
    /\ HasAdvice
    /\ Len(strategies) = 2
    /\ \E j \in 1..Len(Active) : BestProfit(Active[j]) = 0 /\ RecordsAt(Active[j]) = {}
    /\ \E j \in 1..Len(Active) : RecordsAt(Active[j]) # {}

\* The strategies that reach the largest profit at price P.
Tied(P) == {k \in 1..Len(strategies) : ProfitOf(k, P) = BestProfit(P)}

\* C3: on a tie for the largest profit the recorded winner is "custom" if a
\* strategy of that name is among the tied ones, wherever it stands in the
\* list; otherwise it is the tied strategy that comes first in the list.
C3_TieBreak ==
    HasAdvice =>
        \A r \in 1..Len(advice.levelResults) :
            LET P == advice.levelResults[r].price
                first == CHOOSE k \in Tied(P) : \A h \in Tied(P) : k <= h
            IN  IF \E k \in Tied(P) : strategies[k].name = "custom"
                THEN advice.levelResults[r].winner = "custom"
                ELSE advice.levelResults[r].winner = strategies[first].name

\* A preset listed first and "custom" listed second tie at a recorded level,
\* and custom is recorded.
C3_Witness ==
    /\ HasAdvice
    /\ Len(strategies) = 2
    /\ strategies[2].name = "custom"
    /\ \E r \in 1..Len(advice.levelResults) :
          /\ Tied(advice.levelResults[r].price) = {1, 2}
          /\ advice.levelResults[r].winner = "custom"

\* C4: the segments are the maximal runs of consecutively recorded levels with
\* one winner: strictly descending, rangeHigh >= rangeLow being the highest and
\* lowest recorded level of the run, every recorded level in exactly one
\* segment (that of its winner), adjacent segments with different winners, and
\* as many segments as 1 + the number of winner changes between consecutive
\* recorded levels.
C4_SegmentsAreMaximalRuns ==
    HasAdvice =>
        LET lrs == advice.levelResults
            segs == advice.segments
            changes == {r \in 2..Len(lrs) : lrs[r].winner # lrs[r - 1].winner}
            \* the segment (position) a recorded entry falls in, by run number
            runOf(r) == 1 + Cardinality({c \in changes : c <= r})
            members(j) == {r \in 1..Len(lrs) : runOf(r) = j}
        IN  /\ Len(segs) = IF lrs = <<>> THEN 0 ELSE 1 + Cardinality(changes)
            /\ \A j \in 1..Len(segs) :
                  /\ segs[j].rangeHigh >= segs[j].rangeLow
                  /\ members(j) # {}
                  /\ \A r \in members(j) :
                        /\ lrs[r].winner = segs[j].winner
                        /\ lrs[r].price <= segs[j].rangeHigh
                        /\ lrs[r].price >= segs[j].rangeLow
                  /\ \E r \in members(j) : lrs[r].price = segs[j].rangeHigh
                  /\ \E r \in members(j) : lrs[r].price = segs[j].rangeLow
            /\ \A j \in 1..(Len(segs) - 1) :
                  /\ segs[j].rangeLow > segs[j + 1].rangeHigh
                  /\ segs[j].winner # segs[j + 1].winner
            /\ \A r \in 1..Len(lrs) :
                  Cardinality({j \in 1..Len(segs) :
                                  /\ lrs[r].price <= segs[j].rangeHigh
                                  /\ lrs[r].price >= segs[j].rangeLow}) = 1

\* Two segments, the first of which spans two different levels.
C4_Witness ==
    /\ HasAdvice
    /\ Len(advice.segments) = 2
    /\ advice.segments[1].rangeHigh > advice.segments[1].rangeLow

\* The rebound prices at which the advice is read: every level and every
\* price between, above and below the levels.
BottomPrices == 0..(Max(MaxPrice, LadderLen) + 1)

ActiveSet == {Active[h] : h \in 1..Len(Active)}

\* The active levels below the lowest level of a segment; the highest of them
\* is the lower limit L of the segment's range, and there is none when the
\* segment ends at the lowest active level.
LevelsBelow(seg) == {x \in ActiveSet : x < seg.rangeLow}

\* b lies in the range the advice gives for seg: L < b <= rangeHigh.
InRangeOf(seg, b) == b <= seg.rangeHigh /\ \A x \in LevelsBelow(seg) : b > x

\* C5: for strategies whose allocation prices are active levels, with weights
\* >= 0 and totalSize > 0, at every rebound price b in the range of a segment
\* (L < b <= rangeHigh) the segment's winner makes at least the profit of
\* every other strategy.
C5_WinnerHoldsBetweenLevels ==
    ( /\ HasAdvice
      /\ totalSize > 0
      /\ \A k \in 1..Len(strategies) :
            \A a \in 1..Len(strategies[k].allocations) :
                /\ strategies[k].allocations[a].price \in ActiveSet
                /\ strategies[k].allocations[a].weight >= 0 )
    => \A j \in 1..Len(advice.segments) :
          \A b \in BottomPrices :
              InRangeOf(advice.segments[j], b) =>
                  \A w \in Named(advice.segments[j].winner) :
                      \A k \in 1..Len(strategies) : ProfitOf(w, b) >= ProfitOf(k, b)

\* Two segments with different winners over levels that leave a price free
\* between them, the strategies making different profits at that price.
C5_Witness ==
    /\ HasAdvice
    /\ Len(advice.segments) = 2
    /\ \E b \in BottomPrices :
          /\ b \notin ActiveSet
          /\ InRangeOf(advice.segments[1], b)
          /\ ProfitOf(1, b) # ProfitOf(2, b)
    /\ \E b \in BottomPrices :
          /\ InRangeOf(advice.segments[2], b)
          /\ ProfitOf(1, b) # ProfitOf(2, b)

\* The number of recorded levels won by name.
WinsOf(name) ==
    Cardinality({r \in 1..Len(advice.levelResults) :
                    advice.levelResults[r].winner = name})

HasBest == HasAdvice /\ advice.bestStrategy # NoStrategy

\* C6: a non-null bestStrategy carries the number of active levels at which
\* its name was recorded as winner (a level listed twice counts twice), and no
\* other name was recorded at more levels.
C6_BestHasMostWins ==
    HasBest =>
        /\ advice.bestStrategy.count = WinsOf(advice.bestStrategy.name)
        /\ advice.bestStrategy.count > 0
        /\ \A k \in 1..Len(strategies) :
              WinsOf(strategies[k].name) <= advice.bestStrategy.count

\* The best strategy won at least two levels and the other one at least one.
C6_Witness ==
    /\ HasBest
    /\ advice.bestStrategy.count >= 2
    /\ \E k \in 1..Len(strategies) :
          /\ strategies[k].name # advice.bestStrategy.name
          /\ WinsOf(strategies[k].name) >= 1

\* The names that share the highest count of levels won.
TopNames ==
    {strategies[k].name : k \in {h \in 1..Len(strategies) :
        WinsOf(strategies[h].name) = advice.bestStrategy.count}}

\* The position in levelResults at which the running count of name reaches c.
ReachedAt(name, c) ==
    CHOOSE r \in 1..Len(advice.levelResults) :
        /\ advice.levelResults[r].winner = name
        /\ Cardinality({q \in 1..r : advice.levelResults[q].winner = name}) = c

\* C7 as stated: among the names that share the highest count, bestStrategy is
\* the one whose running count reached that value first.
C7_FirstToReachMax ==
    (HasBest /\ Cardinality(TopNames) >= 2) =>
        \A n \in TopNames :
            ReachedAt(advice.bestStrategy.name, advice.bestStrategy.count)
                <= ReachedAt(n, advice.bestStrategy.count)

\* C7 (amended): among the names that share the highest count, bestStrategy is
\* the one that was recorded as a winner first, i.e. at the highest price.
C7_FirstToWinAmongTied ==
    (HasBest /\ Cardinality(TopNames) >= 2) =>
        \A n \in TopNames :
            ReachedAt(advice.bestStrategy.name, 1) <= ReachedAt(n, 1)

\* Two names share the highest count, and the one that reached it first is
\* not the one that won a level first.
C7_Witness ==
    /\ HasBest
    /\ Cardinality(TopNames) >= 2
    /\ \E n \in TopNames :
          /\ ReachedAt(n, advice.bestStrategy.count)
                < ReachedAt(advice.bestStrategy.name, advice.bestStrategy.count)
          /\ ReachedAt(advice.bestStrategy.name, 1) < ReachedAt(n, 1)

(***************************************************************************)
(* Properties of coveragePct (SpecSweep).                                  *)
(***************************************************************************)
\* The sum of the Nums fn[x] over the finite set S.
RECURSIVE NumSumFn(_, _)
NumSumFn(S, fn) ==
    IF S = {} THEN Int2Num(0)
    ELSE LET x == CHOOSE y \in S : TRUE IN NumAdd(fn[x], NumSumFn(S \ {x}, fn))

\* The segments (positions) won by bestStrategy.
BestSegments ==
    {j \in 1..Len(advice.segments) :
        advice.segments[j].winner = advice.bestStrategy.name}

\* No active price is listed twice.
NoRepeatedLevel == Cardinality(ActiveSet) = Len(Active)

\* (a - b) / sweepStep + 1
StepCount(a, b) ==
    NumAdd(NumDiv(Int2Num(a - b), Int2Num(bottomStep)), Int2Num(1))

\* round(100 * S / T) with T = (sweepMax - sweepMin) / sweepStep + 1
PctOf(S) ==
    NumRound(NumDiv(NumMul(Int2Num(100), S), StepCount(bottomMax, bottomMin)))

\* The lower bound of a segment as the claim words it: the next-lower active
\* level + sweepStep, or sweepMin when the segment ends at the lowest level.
StatedLowerBound(seg) ==
    IF LevelsBelow(seg) = {} THEN bottomMin
    ELSE (CHOOSE x \in LevelsBelow(seg) : \A y \in LevelsBelow(seg) : y <= x)
         + bottomStep

\* C8 as stated, for price lists without a repeated price: coveragePct =
\* round(100 * S / T), S the sum over the segments of bestStrategy of
\* (clampedHigh - clampedLow) / sweepStep + 1, clampedHigh = rangeHigh clamped
\* to sweepMax, clampedLow = the stated lower bound clamped to sweepMin.
C8_CoverageSumAsStated ==
    (HasBest /\ NoRepeatedLevel) =>
        advice.coveragePct =
            PctOf(NumSumFn(BestSegments,
                    [j \in BestSegments |->
                        StepCount(Min(advice.segments[j].rangeHigh, bottomMax),
                                  Max(StatedLowerBound(advice.segments[j]),
                                      bottomMin))]))

\* The position of the first occurrence of a segment's rangeLow in the
\* descending list of active levels.
FirstAt(seg) ==
    CHOOSE h \in 1..Len(Active) :
        Active[h] = seg.rangeLow /\ \A g \in 1..(h - 1) : Active[g] # seg.rangeLow

\* The lower bound of a segment as the code takes it: sweepMin when the first
\* occurrence of rangeLow is the last entry of the active list, else the entry
\* after that occurrence + sweepStep.
CodeLowerBound(seg) ==
    IF FirstAt(seg) = Len(Active) THEN bottomMin
    ELSE Active[FirstAt(seg) + 1] + bottomStep

\* C8 (amended): coveragePct = round(100 * S / T), where every segment of
\* bestStrategy adds max(0, (clampedHigh - clampedLow) / sweepStep + 1) to S.
C8_CoverageSumFloored ==
    HasBest =>
        advice.coveragePct =
            PctOf(NumSumFn(BestSegments,
                    [j \in BestSegments |->
                        NumMax(Int2Num(0),
                            StepCount(Min(advice.segments[j].rangeHigh, bottomMax),
                                      Max(CodeLowerBound(advice.segments[j]),
                                          bottomMin)))]))

\* bestStrategy owns a segment that lies above the sweep range, whose step
\* count is negative, and another one that covers part of the range.
C8_Witness ==
    /\ HasBest
    /\ NoRepeatedLevel
    /\ \E j \in BestSegments :
          NumLt(StepCount(Min(advice.segments[j].rangeHigh, bottomMax),
                          Max(CodeLowerBound(advice.segments[j]), bottomMin)),
                Int2Num(0))
    /\ NumLt(Int2Num(0), advice.coveragePct)

\* The points of the sweep: bottomMin, bottomMin + bottomStep, ... <= bottomMax.
SweepPoints ==
    {bottomMin + k * bottomStep : k \in 0..((bottomMax - bottomMin) \div bottomStep)}

\* The sweep points at which bestStrategy is the advised winner.
AdvisedPoints ==
    {b \in SweepPoints : \E j \in BestSegments : InRangeOf(advice.segments[j], b)}

\* C9, for a well-formed sweep and price lists without a repeated price:
\* coveragePct is the rounded percentage of the sweep points at which
\* bestStrategy is the advised winner.
C9_CoverageCountsSweepPoints ==
    (HasBest /\ NoRepeatedLevel /\ bottomStep > 0 /\ bottomMin < bottomMax) =>
        advice.coveragePct =
            NumRound(NumDiv(Int2Num(100 * Cardinality(AdvisedPoints)),
                            Int2Num(Cardinality(SweepPoints))))

SpansSweep(seg) ==
    /\ bottomStep > 0
    /\ bottomMin <= bottomMax
    /\ seg.rangeHigh >= bottomMax
    /\ CodeLowerBound(seg) <= bottomMin

NoActiveLevel == \A j \in 1..Len(priceLevels) : priceLevels[j] <= 0

\* C11: analyzeStrategyAdvice returns null if and only if the strategies list
\* is empty or priceLevels holds no value > 0.  For every other input, the
\* sweep parameters being of any value (step <= 0, range reversed or empty),
\* the value returned is not null: it carries a positive zeroZonePrice and a
\* coveragePct that is a number, NaN and the infinities included (a division
\* by a step of 0 yields one of these and raises nothing).
C11_NullIffNoStrategyOrNoLevel ==
    Returned =>
        /\ advice.isNull <=> (strategies = <<>> \/ NoActiveLevel)
        /\ ~advice.isNull =>
              /\ advice.zeroZonePrice > 0
              /\ advice.coveragePct.kind \in {"fin", "nan", "inf"}

\* A call with a strategy, an active level and a sweep step of 0 returns a
\* result that is not null, whose coveragePct is NaN.
C11_Witness ==
    /\ HasAdvice
    /\ strategies # <<>>
    /\ bottomStep = 0
    /\ advice.coveragePct.kind = "nan"

ActivePrices ==
    {priceLevels[j] : j \in {h \in 1..Len(priceLevels) : priceLevels[h] > 0}}

\* C15: whenever the result is not null, zeroZonePrice is the largest of the
\* values > 0 in priceLevels, whatever the strategies, targetPrice, totalSize
\* and sweep parameters are and in whatever order priceLevels lists them.
C15_ZeroZoneIsHighestLevel ==
    HasAdvice =>
        /\ advice.zeroZonePrice \in ActivePrices
        /\ \A x \in ActivePrices : x <= advice.zeroZonePrice

\* priceLevels lists its largest value last, after a smaller one and an
\* unused slot, and no strategy wins a level.
C15_Witness ==
    /\ HasAdvice
    /\ Len(priceLevels) = 3
    /\ priceLevels[1] = 0
    /\ priceLevels[2] > 0
    /\ priceLevels[3] > priceLevels[2]
    /\ advice.zeroZonePrice = priceLevels[3]
    /\ advice.segments = <<>>
    /\ strategies # <<>>

(***************************************************************************)
(* Properties of the range shown by AdvicePanel (Spec).                    *)
(***************************************************************************)
\* The active level immediately below the lowest level of a segment.
NextLowerLevel(seg) ==
    CHOOSE x \in LevelsBelow(seg) : \A y \in LevelsBelow(seg) : y <= x

\* C16: the range shown for a segment has the upper bound "<= rangeHigh";
\* for every segment but the last its lower bound is "> nextLowerLevel", the
\* active level immediately below the segment's lowest level; the last
\* segment, and only it, is shown without a lower bound.
C16_RangeShownAsDocumented ==
    HasAdvice =>
        \A j \in 1..Len(advice.segments) :
            LET seg == advice.segments[j]
                shown == RangeStr(seg)
            IN  /\ shown.upper = seg.rangeHigh
                /\ shown.hasLower <=> (j # Len(advice.segments))
                /\ shown.hasLower =>
                      /\ LevelsBelow(seg) # {}
                      /\ shown.lower = NextLowerLevel(seg)

(***************************************************************************)
(* Properties of the custom allocation in useSimulator (SpecHook).         *)
(***************************************************************************)
\* The names of a list of strategies.
NamesOf(list) == {list[k].name : k \in 1..Len(list)}

\* |customWeightSum - 1| < ALLOCATION_TOLERANCE
SumIsOneWithinTolerance ==
    /\ DLess(DSub(DOne, ALLOCATION_TOLERANCE), WeightSum(customAllocations))
    /\ DLess(WeightSum(customAllocations), DAdd(DOne, ALLOCATION_TOLERANCE))

\* C17: a strategy named "custom" is among the strategies compared
\* (comparableStrategies, given to analyzeStrategyAdvice) and among the names
\* ranked (profitRankings) only when the custom weights sum to 1 within the
\* tolerance, |customWeightSum - 1| < ALLOCATION_TOLERANCE; when the sum is
\* off by more, above or below, custom is not compared.
C17_CustomComparedOnlyWhenSumIsOne ==
    /\ ("custom" \in NamesOf(ComparableStrategies(priceLevels, customAllocations)))
          => SumIsOneWithinTolerance
    /\ ("custom" \in {RankedNames(customAllocations)[k] :
                          k \in 1..Len(RankedNames(customAllocations))})
          => SumIsOneWithinTolerance

(***************************************************************************)
(* Properties of generatePresetWeights (SpecWeights).                      *)
(***************************************************************************)
\* The elements of an array of weights added up in index order, as
\* activeWeightSum adds the weights of the selected preset.
SumOf(ws) == WeightSum([i \in 1..Len(ws) |-> [weight |-> ws[i]]])

PresetNames == {STRATEGY_ORDER[k] : k \in 1..Len(STRATEGY_ORDER)}

\* C18 as stated: for levelCount >= 1 each of pyramid, uniform and inverted
\* has levelCount elements and its elements sum to 1.
C18_PresetWeightsSumToOne ==
    (Returned /\ levelCount >= 1) =>
        \A name \in PresetNames :
            /\ Len(presetWeights[name]) = levelCount
            /\ SumOf(presetWeights[name]) = DOne

\* |x - y|, exact for the values compared here (they lie within a factor of
\* 2 of each other)
AbsDiff(x, y) == IF DLess(x, y) THEN DSub(y, x) ELSE DSub(x, y)

\* k * 2^-52: k units in the last place of 1
UnitsInLastPlace(k) == RoundToDouble(BFromInt(k), 0 - (MantissaBits - 1))

\* C18 (amended): for levelCount >= 1 each of pyramid, uniform and inverted
\* has levelCount elements, and its elements added up in double precision
\* give 1 up to rounding: the sum differs from 1 by at most levelCount *
\* 2^-52.
C18_PresetWeightsSumToOneRounded ==
    (Returned /\ levelCount >= 1) =>
        \A name \in PresetNames :
            /\ Len(presetWeights[name]) = levelCount
            /\ ~DLess(UnitsInLastPlace(levelCount),
                      AbsDiff(SumOf(presetWeights[name]), DOne))

\* Seven levels, the number of DEFAULT_CONFIG: pyramid and inverted add up
\* to exactly 1, uniform does not.
C18_Witness ==
    /\ Returned
    /\ levelCount = 7
    /\ SumOf(presetWeights.pyramid) = DOne
    /\ SumOf(presetWeights.inverted) = DOne
    /\ SumOf(presetWeights.uniform) # DOne

\* C19: for levelCount >= 1, pyramid[i] = (i+1) / (1 + 2 + ... + levelCount)
\* at every index i (the quotient as a double), the weights are strictly
\* increasing in the index and the heaviest is the last.
C19_PyramidIsLinear ==
    (Returned /\ levelCount >= 1) =>
        LET pyramid == presetWeights.pyramid
        IN  /\ Len(pyramid) = levelCount
            /\ \A i \in 1..levelCount :
                  pyramid[i] = DDivInt(i, (levelCount * (levelCount + 1)) \div 2)
            /\ \A i \in 1..(levelCount - 1) : DLess(pyramid[i], pyramid[i + 1])
            /\ \A i \in 1..(levelCount - 1) : DLess(pyramid[i], pyramid[levelCount])

\* Three levels: 1/6 < 1/3 < 1/2.
C19_Witness ==
    /\ Returned
    /\ levelCount = 3
    /\ presetWeights.pyramid[3] = DDivInt(1, 2)
    /\ DLess(presetWeights.pyramid[1], presetWeights.pyramid[2])

\* C20: for levelCount >= 1, inverted is pyramid read backwards (inverted[i]
\* = pyramid[levelCount-1-i] at every index), the pyramid returned is not
\* itself turned round (it is the ascending array that was computed), and
\* inverted is strictly decreasing in the index.
C20_InvertedIsReversedPyramid ==
    (Returned /\ levelCount >= 1) =>
        LET pyramid == presetWeights.pyramid
            inverted == presetWeights.inverted
        IN  /\ Len(inverted) = levelCount
            /\ \A i \in 1..levelCount : inverted[i] = pyramid[levelCount + 1 - i]
            /\ pyramid = Pyramid(levelCount)
            /\ \A i \in 1..(levelCount - 1) : DLess(inverted[i + 1], inverted[i])

\* Four levels: inverted starts with the heaviest weight, pyramid ends
\* with it.
C20_Witness ==
    /\ Returned
    /\ levelCount = 4
    /\ presetWeights.inverted[1] = presetWeights.pyramid[4]
    /\ DLess(presetWeights.pyramid[1], presetWeights.inverted[1])
    /\ presetWeights.inverted # presetWeights.pyramid

\* C21: for levelCount >= 1, every element of uniform but the last is
\* 1/levelCount, the last is 1 - (levelCount-1)/levelCount, and the elements
\* added up give exactly 1.
C21_UniformSumsToExactlyOne ==
    (Returned /\ levelCount >= 1) =>
        LET uniform == presetWeights.uniform
        IN  /\ Len(uniform) = levelCount
            /\ \A i \in 1..(levelCount - 1) : uniform[i] = DDivInt(1, levelCount)
            /\ uniform[levelCount] = DSub(DOne, DDivInt(levelCount - 1, levelCount))
            /\ SumOf(uniform) = DOne

(***************************************************************************)
(* Properties of generateExponentialWeights (SpecExp).                     *)
(***************************************************************************)
\* What the claim writes 1.8^k: Math.pow(EXPONENTIAL_BASE, k) of the build.
PowerOfBase(k) == MathPow(mathPow, EXPONENTIAL_BASE, k)

\* 1.8^0 + ... + 1.8^(levelCount-1), the largest power first as the code
\* adds them.
SumOfPowers == SumOf([i \in 1..levelCount |-> PowerOfBase(levelCount - i)])

MathRound(x) ==
    IF x = DZero THEN 0
    ELSE BitsVal(x.m, 1 - x.e, MantissaBits) + Bit(x.m, 0 - x.e)

\* Math.round(weight * 100), the whole percent the strategy selector shows.
WholePercent(weight) == MathRound(DMul(weight, DFromInt(100)))

\* C23: for 7 levels the weights, rounded to whole percent, are 35, 20, 11,
\* 6, 3, 2, 1 from index 0 on.
C23_SevenLevelPercents ==
    (Returned /\ levelCount = 7) =>
        [i \in 1..7 |-> WholePercent(exponentialWeights[i])]
            = <<35, 20, 11, 6, 3, 2, 1>>

(***************************************************************************)
(* Further properties of analyzeStrategyAdvice (SpecSweep, Spec).          *)
(***************************************************************************)
\* C24: with bottomStep > 0 and bottomMin < bottomMax a result that is not
\* null has a coveragePct that is a whole number from 0 to 100, wherever
\* the price levels lie relative to the sweep range and whether or not
\* bottomStep divides the gaps between levels.
C24_CoveragePctIsWholePercent ==
    (HasAdvice /\ bottomStep > 0 /\ bottomMin < bottomMax) =>
        /\ advice.coveragePct.kind = "fin"
        /\ advice.coveragePct.d = 1
        /\ advice.coveragePct.n \in 0..100

\* A sweep from 0 to 4 in steps of 2, which do not divide the gaps between
\* the levels, one level at least outside a range, and a best strategy that
\* covers part of the sweep.
C24_Witness ==
    /\ HasAdvice
    /\ bottomStep = 2
    /\ bottomMin < bottomMax
    /\ \E j \in 1..Len(priceLevels) : priceLevels[j] > bottomMax \/ priceLevels[j] % 2 = 1
    /\ advice.coveragePct.n \in 1..99

\* C25: with totalSize > 0 (weights are >= 0 and prices > 0 in every
\* strategy), once an active level has a recorded winner every lower active
\* level has one too; so whenever segments is not empty exactly one segment
\* has isLast, it is the final one, and its rangeLow is the lowest active
\* price level.
C25_WinnersReachTheLowestLevel ==
    (HasAdvice /\ totalSize > 0) =>
        /\ \A i \in 1..Len(Active) : \A j \in i..Len(Active) :
              RecordsAt(Active[i]) # {} => RecordsAt(Active[j]) # {}
        /\ advice.segments # <<>> =>
              /\ {j \in 1..Len(advice.segments) : advice.segments[j].isLast}
                    = {Len(advice.segments)}
              /\ advice.segments[Len(advice.segments)].rangeLow = Active[Len(Active)]

\* The highest active level has no winner (buying there alone loses against
\* the target), a lower one has, and the segments end at the lowest level.
C25_Witness ==
    /\ HasAdvice
    /\ Len(Active) >= 3
    /\ RecordsAt(Active[1]) = {}
    /\ Len(advice.segments) >= 2
    /\ advice.segments[Len(advice.segments)].isLast
    /\ advice.segments[Len(advice.segments)].rangeLow = Active[Len(Active)]

\* priceLevels with every value kept at its first slot only.
DistinctLevels ==
    SelectSeq([j \in 1..Len(priceLevels) |->
                  IF \E h \in 1..(j - 1) : priceLevels[h] = priceLevels[j]
                  THEN 0 - 1 ELSE priceLevels[j]],
              LAMBDA x : x >= 0)

\* What analyzeStrategyAdvice returns for the same arguments and the price
\* levels without their repetitions.
AdviceForDistinctLevels ==
    AnalyzeStrategyAdvice(strategies, DistinctLevels, targetPrice, totalSize,
                          bottomMin, bottomMax, bottomStep)

\* C26: a price listed more than once in priceLevels changes nothing: the
\* segments, the name of bestStrategy and coveragePct are those returned for
\* the list with the repetitions removed.
C26_RepeatedPriceChangesNothing ==
    Returned =>
        /\ advice.isNull = AdviceForDistinctLevels.isNull
        /\ advice.segments = AdviceForDistinctLevels.segments
        /\ advice.bestStrategy.name = AdviceForDistinctLevels.bestStrategy.name
        /\ advice.coveragePct = AdviceForDistinctLevels.coveragePct

(***************************************************************************)
(* Properties of the custom allocation under edits of the price levels     *)
(* (SpecConfig).                                                           *)
(***************************************************************************)
\* The slots of customAllocations that hold a price > 0, in order: slot
\* ActiveSlots[i + 1] is what row i of activeAllocations displays.
ActiveSlots ==
    SelectSeq([j \in 1..Len(customAllocations) |-> j],
              LAMBDA j : customAllocations[j].price > 0)

\* C27: in custom mode, after any sequence of price-level edits (one that
\* clears a slot in the middle of the list included), the slider of row i
\* sets the weight of the allocation that row i of activeAllocations
\* displays, and leaves the price and the weight of every other custom
\* allocation as they were.
C27_SliderChangesItsRow ==
    [][ event'.handler = "updateCustomWeight" =>
          LET slot == ActiveSlots[event'.index + 1]
          IN  /\ Len(customAllocations') = Len(customAllocations)
              /\ customAllocations'[slot].weight = SliderValue(event'.step)
              /\ \A j \in 1..Len(customAllocations) :
                    /\ customAllocations'[j].price = customAllocations[j].price
                    /\ j # slot =>
                          customAllocations'[j].weight = customAllocations[j].weight
      ]_vars

\* C28: after resetCustomAllocations(cfg), for a cfg with an active price
\* level, customAllocations has one entry for each slot of cfg.priceLevels,
\* in the same order; a slot with a price <= 0 has weight 0; and the weights
\* of the active slots sum to 1 (here: up to the rounding of the double sum,
\* one unit in the last place for each level), a price that fills several
\* slots included.
C28_ResetIsFullyDeployed ==
    (event.reset /\ ~NoActiveLevel) =>
        /\ Len(customAllocations) = Len(priceLevels)
        /\ \A j \in 1..Len(priceLevels) :
              /\ customAllocations[j].price = priceLevels[j]
              /\ priceLevels[j] <= 0 => customAllocations[j].weight = DZero
        /\ ~DLess(UnitsInLastPlace(Len(ActiveAllocations)),
                  AbsDiff(WeightSum(ActiveAllocations), DOne))

(***************************************************************************)
(* Properties of the bottom price and of the sweep (SpecBottom).           *)
(***************************************************************************)
\* price is a sweep point: bottomMin + k * bottomStep for a whole k >= 0,
\* within the range.
IsSweepPoint(price) ==
    /\ bottomMin <= price
    /\ price <= bottomMax
    /\ (price - bottomMin) % bottomStep = 0

\* C29: between renders, whenever the configuration has bottomMin <
\* bottomMax and bottomStep > 0, bottomPrice is one of the sweep points,
\* whatever changes of the range (each followed by the auto-adjust effect),
\* arrow keys and clicks on the buttons of the bottom slider came before.
C29_BottomPriceIsSweepPoint ==
    (pc = "render" /\ bottomMin < bottomMax /\ bottomStep > 0) =>
        IsSweepPoint(bottomPrice)

\* C30: the loop that builds the sweep points ends for every value the
\* config panel puts into the configuration, a step of 0 or below
\* included: p passes bottomMax after finitely many turns, that is, no turn
\* of the loop is taken with a step that does not move p forward.
C30_SweepLoopEnds ==
    (pc = "sweep" /\ p <= bottomMax) => bottomStep > 0

====
